---- MODULE Spec2Model ----
(***************************************************************************)
(* Navigation and territory control of the SoloLeveling game:              *)
(*   - the cellular-automata level generator (systems/procgen.py) and the  *)
(*     spawn placement of GameEngine.init_level,                           *)
(*   - the pathfinder (systems/pathfinding.py): A* and the two BFS scans,  *)
(*   - the enemy behaviour (entities/enemy.py, entities/base_entity.py).   *)
(* Coordinates are tuples <<x, y>>; a boolean map holds TRUE for a wall.   *)
(***************************************************************************)
EXTENDS Integers, Sequences, FiniteSets, TLC

VARIABLES
    \* ---- CellularAutomataGenerator.generate, GameEngine.init_level ----
    gen_pc,          \* position in generate / init_level
    map_grid,        \* map_grid[<<x, y>>]: TRUE = wall
    iterations,      \* the iterations argument of generate
    rounds,          \* smoothing rounds done so far
    largest_region,  \* self.largest_region (a list of coordinates)
    placed,          \* _add_pillars: pillars placed
    attempts,        \* _add_pillars: attempts made
    spawn,           \* init_level: (spawn_x, spawn_y)
    exit_pos         \* init_level: (exit_x, exit_y)

genVars == <<gen_pc, map_grid, iterations, rounds, largest_region, placed,
             attempts, spawn, exit_pos>>

\* ---- one request to the Pathfinding class ----
VARIABLES
    grid,            \* the Grid: [width, height, tiles], tiles[<<x, y>>] = [type, cost]
    q_kind,          \* "a_star" or "scan": which request this run makes
    q_start,         \* start / start_pos argument
    q_goal,          \* goal argument of a_star
    q_radius,        \* radius argument of the scans
    called,          \* the functions called so far
    path_result,     \* what a_star returned
    scan_result,     \* what bfs_scan returned
    layers_result    \* what bfs_scan_layered returned

pathVars == <<grid, q_kind, q_start, q_goal, q_radius, called, path_result, scan_result,
              layers_result>>

\* ---- one enemy, the player and the game tick (PlayingState.update) ----
VARIABLES
    enemy,           \* the Enemy object, a record of its fields
    player,          \* the Player: [x, y]
    tick_pc,         \* position in the tick: "idle", "updated", "moved"
    tick_dt,         \* dt of the tick in progress
    before           \* the enemy's state and path when the update that has
                     \* just run was entered (<<>> at any other time)

enemyVars == <<enemy, player, tick_pc, tick_dt, before>>

\* ---- calls made on one Enemy object, one at a time ----
VARIABLES
    last_call,       \* the call that has just returned: its name, its arguments
                     \* and the enemy as it was when the call was made
    calls            \* number of calls made so far

callVars == <<last_call, calls>>

\* ---- one shadow and the enemies it fights ----
VARIABLES
    shadow,          \* the Shadow object, a record of its fields
    enemies          \* the enemy list handed to Shadow.update

shadowVars == <<shadow, enemies>>

\* ---- the enemy's attacks on the player ----
VARIABLES
    since_attack     \* tick time gone by since the enemy's last landed attack

combatVars == <<since_attack>>

\* ---- the GameEngine with its state machine, the renderer and the menus ----
VARIABLES
    engine,          \* the GameEngine object and its StateMachine: a record
    renderer,        \* the Renderer's BFS animation fields
    menus,           \* TrapMenu and ShadowMenu: active, selected_index
    hist             \* what the run has seen so far (no field of the program)

gameVars == <<engine, renderer, menus, hist>>

restVars == <<callVars, shadowVars, combatVars, gameVars>>

vars == <<genVars, pathVars, enemyVars, restVars>>

-----------------------------------------------------------------------------
(* Bounds of the generator model *)

GenSize == 7          \* width = height of the generated map
MaxIterations == 1    \* largest iterations argument tried

PathSize == 3         \* width = height of the grids handed to the pathfinder
MaxRadius == 3        \* largest scan radius tried

EnemyWidth == 7       \* width of the two-row grid the enemy lives on
MaxMoveTimer == 60    \* move_timer is not let grow beyond this

MaxCalls == 5         \* longest sequence of calls made on one Enemy object
MaxShadowCalls == 5   \* longest sequence of steps taken around one Shadow

NoPos == <<-9, -9>>   \* "not set yet"

Abs(n) == IF n < 0 THEN -n ELSE n

-----------------------------------------------------------------------------
(* systems/procgen.py *)

GenWidth == GenSize
GenHeight == GenSize

GenCells == (0 .. GenWidth - 1) \X (0 .. GenHeight - 1)

IsEdge(c) ==
    c[1] = 0 \/ c[1] = GenWidth - 1 \/ c[2] = 0 \/ c[2] = GenHeight - 1

Interior == {c \in GenCells : ~IsEdge(c)}

\* The neighbour order of every flood fill and search of the repository:
\* (cx+1, cy), (cx-1, cy), (cx, cy+1), (cx, cy-1).
Neighbors(c) ==
    << <<c[1] + 1, c[2]>>, <<c[1] - 1, c[2]>>, <<c[1], c[2] + 1>>, <<c[1], c[2] - 1>> >>

\* Outcomes of the interior draws "random.random() < wall_prob" that the
\* model tries, each given as its set of floor cells: no floor (wall_prob >= 1),
\* all floor (wall_prob <= 0), one horizontal corridor, or an open interior
\* cut by one full wall column.
SeedCorridors ==
    {{c \in Interior : c[2] = y /\ x1 <= c[1] /\ c[1] <= x2} :
        <<y, x1, x2>> \in {t \in (1 .. GenHeight - 2) \X (1 .. GenWidth - 2) \X (1 .. GenWidth - 2) :
                              t[2] <= t[3]}}

SeedOpen == {{c \in Interior : c[1] # col} : col \in 0 .. GenWidth - 2}

SeedFloorSets == {{}} \cup SeedCorridors \cup SeedOpen

\* generate, step 1: edges are always walls, the interior is drawn.
SeedMap(floor) == [c \in GenCells |-> IF IsEdge(c) THEN TRUE ELSE c \notin floor]

\* a wall count that leaves the cells outside the map out
SurroundingWallCountInside(x, y, m) ==
    Cardinality({d \in (x - 1 .. x + 1) \X (y - 1 .. y + 1) :
        /\ d # <<x, y>>
        /\ d \in DOMAIN m
        /\ m[d]})

\* _get_surrounding_wall_count
SurroundingWallCount(x, y, m) ==
    Cardinality({d \in (x - 1 .. x + 1) \X (y - 1 .. y + 1) :
        /\ d # <<x, y>>
        /\ IF d[1] < 0 \/ d[1] >= GenWidth \/ d[2] < 0 \/ d[2] >= GenHeight
           THEN TRUE
           ELSE m[d]})

\* smoothing that writes into the map it reads, cell after cell in the order
\* of the two for-loops
RECURSIVE SmoothScan(_, _)
SmoothScan(k, m) ==
    IF k >= GenWidth * GenHeight THEN m
    ELSE LET c == <<k \div GenHeight, k % GenHeight>>
             n == Cardinality({d \in (c[1] - 1 .. c[1] + 1) \X (c[2] - 1 .. c[2] + 1) :
                                  d # c /\ (d \notin DOMAIN m \/ m[d])})
         IN  SmoothScan(k + 1, [m EXCEPT ![c] = IF n > 4 THEN TRUE
                                                 ELSE IF n < 4 THEN FALSE
                                                 ELSE m[c]])

SmoothMapInPlace(m) == SmoothScan(0, m)

\* _smooth_map: every cell of new_map is computed from the old map_grid.
SmoothMap(m) ==
    [c \in GenCells |->
        LET n == SurroundingWallCount(c[1], c[2], m)
        IN  IF n > 4 THEN TRUE
            ELSE IF n < 4 THEN FALSE
            ELSE m[c]]

\* the for-loop over the four neighbours inside _get_region_tiles
RECURSIVE RegionVisit(_, _, _, _, _, _)
RegionVisit(nbrs, i, queue, visited, m, tile_type) ==
    IF i > Len(nbrs) THEN <<queue, visited>>
    ELSE LET n == nbrs[i]
         IN  IF /\ n \in GenCells
                /\ n \notin visited
                /\ m[n] = tile_type
             THEN RegionVisit(nbrs, i + 1, Append(queue, n), visited \cup {n}, m, tile_type)
             ELSE RegionVisit(nbrs, i + 1, queue, visited, m, tile_type)

\* the while-loop of _get_region_tiles: tiles in breadth-first order
RECURSIVE RegionLoop(_, _, _, _, _)
RegionLoop(queue, visited, tiles, m, tile_type) ==
    IF queue = <<>> THEN tiles
    ELSE LET cur == Head(queue)
             r == RegionVisit(Neighbors(cur), 1, Tail(queue), visited, m, tile_type)
         IN  RegionLoop(r[1], r[2], Append(tiles, cur), m, tile_type)

\* _get_region_tiles
GetRegionTiles(start, tile_type, m) ==
    RegionLoop(<<start>>, {start}, <<>>, m, tile_type)

SeqToSet(s) == {s[i] : i \in 1 .. Len(s)}

\* the scan "for x ... for y ..." of _get_regions; k numbers the cells in
\* that order
RECURSIVE RegionsScan(_, _, _, _, _)
RegionsScan(k, regions, visited, m, tile_type) ==
    IF k >= GenWidth * GenHeight THEN regions
    ELSE LET c == <<k \div GenHeight, k % GenHeight>>
         IN  IF c \notin visited /\ m[c] = tile_type
             THEN LET new_region == GetRegionTiles(c, tile_type, m)
                  IN  RegionsScan(k + 1, Append(regions, new_region),
                                  visited \cup SeqToSet(new_region), m, tile_type)
             ELSE RegionsScan(k + 1, regions, visited, m, tile_type)

\* _get_regions
GetRegions(m, tile_type) == RegionsScan(0, <<>>, {}, m, tile_type)

\* the region found last
LastRegion(regions) == regions[Len(regions)]

\* regions.sort(key=len, reverse=True); regions[0]: the sort is stable, so
\* the first region of the greatest length comes first.
LargestFirst(regions) ==
    LET best == CHOOSE i \in 1 .. Len(regions) :
                    /\ \A j \in 1 .. Len(regions) : Len(regions[j]) <= Len(regions[i])
                    /\ \A j \in 1 .. i - 1 : Len(regions[j]) < Len(regions[i])
    IN  regions[best]

\* _connect_caves: <<final_map, largest_region>>
ConnectCaves(m) ==
    LET regions == GetRegions(m, FALSE)
    IN  IF regions = <<>> THEN <<m, <<>>>>
        ELSE LET largest == LargestFirst(regions)
             IN  <<[c \in GenCells |-> c \notin SeqToSet(largest)], largest>>

\* generate: count=max(3, self.width // 6)
PillarCount == IF GenWidth \div 6 > 3 THEN GenWidth \div 6 ELSE 3

\* _add_pillars: max_attempts = count * 20
MaxAttempts == PillarCount * 20

\* random.choice([(1,0), (0,1), (-1,0), (0,-1)])
PillarDirections == {<<1, 0>>, <<0, 1>>, <<-1, 0>>, <<0, -1>>}

\* a loop body that turns the drawn cell over: floor to wall, wall to floor
PillarStepCarve(m, n_placed, px, py, extend, direction) ==
    <<[m EXCEPT ![<<px, py>>] = ~m[<<px, py>>]], n_placed + 1>>

\* One iteration of the while-loop of _add_pillars with the draws px, py,
\* "random.random() > 0.5" (extend) and direction: <<map_grid, placed>>.
PillarStep(m, n_placed, px, py, extend, direction) ==
    IF ~m[<<px, py>>]
    THEN LET nx == px + direction[1]
             ny == py + direction[2]
             m1 == [m EXCEPT ![<<px, py>>] = TRUE]
             m2 == IF /\ extend
                      /\ 1 < nx /\ nx < GenWidth - 2
                      /\ 1 < ny /\ ny < GenHeight - 2
                   THEN [m1 EXCEPT ![<<nx, ny>>] = TRUE]
                   ELSE m1
         IN  <<m2, n_placed + 1>>
    ELSE <<m, n_placed>>

-----------------------------------------------------------------------------
(* game_engine.py: init_level, the part that places the player and the exit *)

\* config.grid_size of the level whose map is GenSize wide:
\* gen_width = int(config.grid_size * 1.5)
LevelGridSize == (2 * GenSize + 2) \div 3

SpawnKey(p) == p[1] * p[1] + p[2] * p[2]

\* sorted(largest_region, key=lambda p: (p[0]**2 + p[1]**2))[0]: the sort is
\* stable, so the first cell of the least key is taken.
SpawnOf(region) ==
    IF region = <<>> THEN <<2, 2>>
    ELSE LET best == CHOOSE i \in 1 .. Len(region) :
                        /\ \A j \in 1 .. Len(region) : SpawnKey(region[j]) >= SpawnKey(region[i])
                        /\ \A j \in 1 .. i - 1 : SpawnKey(region[j]) > SpawnKey(region[i])
         IN  region[best]

ManhattanTo(p, q) == Abs(p[1] - q[1]) + Abs(p[2] - q[2])

\* far_candidates of init_level
FarCandidates(region, sp) ==
    {p \in SeqToSet(region) : ManhattanTo(p, sp) > LevelGridSize \div 2}

\* The cells init_level can pick for the exit: random.choice(far_candidates),
\* else sorted(..., reverse=True)[0], the first farthest cell; with no region
\* Grid.place_exit puts it at (width - 3, height - 3).
ExitChoices(region, sp) ==
    IF region = <<>> THEN {<<GenWidth - 3, GenHeight - 3>>}
    ELSE IF FarCandidates(region, sp) # {} THEN FarCandidates(region, sp)
    ELSE LET best == CHOOSE i \in 1 .. Len(region) :
                        /\ \A j \in 1 .. Len(region) :
                              ManhattanTo(region[j], sp) <= ManhattanTo(region[i], sp)
                        /\ \A j \in 1 .. i - 1 :
                              ManhattanTo(region[j], sp) < ManhattanTo(region[i], sp)
         IN  {region[best]}

-----------------------------------------------------------------------------
(* systems/pathfinding.py *)

\* "0 <= nx < grid_obj.width and 0 <= ny < grid_obj.height"
InBounds(c, g) == 0 <= c[1] /\ c[1] < g.width /\ 0 <= c[2] /\ c[2] < g.height

\* Grid.get_tile (None is never read by the callers modelled here)
GetTile(g, c) == g.tiles[c]

\* heuristic: Manhattan distance
Heuristic(a, b) == Abs(a[1] - b[1]) + Abs(a[2] - b[2])

\* Python's order on the heap entries (priority, (x, y))
EntryLess(e, f) ==
    \/ e[1] < f[1]
    \/ e[1] = f[1] /\ e[2][1] < f[2][1]
    \/ e[1] = f[1] /\ e[2][1] = f[2][1] /\ e[2][2] < f[2][2]

\* heapq.heappop: the least entry. The frontier is kept as a set: a node is
\* pushed again only with a strictly smaller cost, so no entry occurs twice.
HeapMin(frontier) == CHOOSE e \in frontier : \A f \in frontier \ {e} : EntryLess(e, f)

\* a_star without its wall check
IsBlockedNever(tile) == FALSE

\* a_star: "if tile.type == 'wall': continue"
IsBlocked(tile) == tile.type = "wall"

\* a_star counting steps where it should add up tile costs
StepCostUnit(tile) == 1

\* a_star: the cost added for stepping onto a tile, "+ tile.cost"
StepCost(tile) == tile.cost

\* a_star: the for-loop over the neighbours of current;
\* st = [frontier, came_from, cost_so_far]
RECURSIVE AStarNeighbors(_, _, _, _, _, _)
AStarNeighbors(nbrs, i, current, st, goal, g) ==
    IF i > Len(nbrs) THEN st
    ELSE LET next_node == nbrs[i]
         IN  IF ~InBounds(next_node, g) THEN AStarNeighbors(nbrs, i + 1, current, st, goal, g)
             ELSE LET tile == GetTile(g, next_node)
                  IN  IF IsBlocked(tile) THEN AStarNeighbors(nbrs, i + 1, current, st, goal, g)
                      ELSE LET new_cost == st.cost_so_far[current] + StepCost(tile)
                           IN  IF \/ next_node \notin DOMAIN st.cost_so_far
                                  \/ new_cost < st.cost_so_far[next_node]
                               THEN AStarNeighbors(nbrs, i + 1, current,
                                        [frontier |-> st.frontier \cup
                                             {<<new_cost + Heuristic(next_node, goal), next_node>>},
                                         came_from |-> (next_node :> current) @@ st.came_from,
                                         cost_so_far |-> (next_node :> new_cost) @@ st.cost_so_far],
                                        goal, g)
                               ELSE AStarNeighbors(nbrs, i + 1, current, st, goal, g)

\* a_star: "while frontier"; returns came_from
RECURSIVE AStarLoop(_, _, _)
AStarLoop(st, goal, g) ==
    IF st.frontier = {} THEN st.came_from
    ELSE LET e == HeapMin(st.frontier)
             current == e[2]
             popped == [st EXCEPT !.frontier = st.frontier \ {e}]
         IN  IF current = goal THEN st.came_from
             ELSE AStarLoop(AStarNeighbors(Neighbors(current), 1, current, popped, goal, g),
                            goal, g)

\* a_star: "while cur != start: path.append(cur); cur = came_from[cur]"
RECURSIVE WalkBack(_, _, _, _)
WalkBack(cur, start, came_from, path) ==
    IF cur = start THEN path
    ELSE WalkBack(came_from[cur], start, came_from, Append(path, cur))

Reverse(s) == [i \in 1 .. Len(s) |-> s[Len(s) + 1 - i]]

None == <<"None">>

\* the reconstruction with start left in the path
ReconstructWithStart(came_from, start, goal) ==
    IF goal \in DOMAIN came_from
    THEN <<start>> \o Reverse(WalkBack(goal, start, came_from, <<>>))
    ELSE <<>>

\* a_star: "# Reconstruct path"
Reconstruct(came_from, start, goal) ==
    IF goal \in DOMAIN came_from
    THEN Reverse(WalkBack(goal, start, came_from, <<>>))
    ELSE <<>>

\* a_star
AStar(start, goal, g) ==
    Reconstruct(AStarLoop([frontier |-> {<<0, start>>},
                           came_from |-> (start :> None),
                           cost_so_far |-> (start :> 0)], goal, g),
                start, goal)

\* bfs_scan expanding the tiles at the radius as well
ScanStopsLate(dist, radius) == dist > radius

\* bfs_scan: "if distances[current] >= radius: continue"
ScanStops(dist, radius) == dist >= radius

\* bfs_scan: the for-loop over the neighbours; st = [queue, visited, distances]
RECURSIVE ScanNeighbors(_, _, _, _, _)
ScanNeighbors(nbrs, i, current, st, g) ==
    IF i > Len(nbrs) THEN st
    ELSE LET n == nbrs[i]
         IN  IF InBounds(n, g) /\ n \notin st.visited
             THEN ScanNeighbors(nbrs, i + 1, current,
                      [queue |-> Append(st.queue, n),
                       visited |-> st.visited \cup {n},
                       distances |-> (n :> st.distances[current] + 1) @@ st.distances], g)
             ELSE ScanNeighbors(nbrs, i + 1, current, st, g)

\* bfs_scan: "while queue"
RECURSIVE ScanLoop(_, _, _, _)
ScanLoop(st, revealed_tiles, radius, g) ==
    IF st.queue = <<>> THEN revealed_tiles
    ELSE LET current == Head(st.queue)
             popped == [st EXCEPT !.queue = Tail(st.queue)]
         IN  IF ScanStops(st.distances[current], radius)
             THEN ScanLoop(popped, Append(revealed_tiles, current), radius, g)
             ELSE ScanLoop(ScanNeighbors(Neighbors(current), 1, current, popped, g),
                           Append(revealed_tiles, current), radius, g)

\* bfs_scan
BfsScan(start_pos, g, radius) ==
    ScanLoop([queue |-> <<start_pos>>, visited |-> {start_pos},
              distances |-> (start_pos :> 0)], <<>>, radius, g)

\* bfs_scan_layered without its visited check
LayeredFreshAlways(n, visited) == TRUE

\* bfs_scan_layered: "if (nx, ny) not in visited"
LayeredFresh(n, visited) == n \notin visited

\* bfs_scan_layered: the for-loop over the neighbours;
\* st = [queue, visited, distances, layers]; layers[d + 1] is Python's layers[d]
RECURSIVE LayeredNeighbors(_, _, _, _, _, _)
LayeredNeighbors(nbrs, i, current_dist, st, radius, g) ==
    IF i > Len(nbrs) THEN st
    ELSE LET n == nbrs[i]
             new_dist == current_dist + 1
         IN  IF InBounds(n, g) /\ LayeredFresh(n, st.visited)
             THEN LayeredNeighbors(nbrs, i + 1, current_dist,
                      [queue |-> Append(st.queue, n),
                       visited |-> st.visited \cup {n},
                       distances |-> (n :> new_dist) @@ st.distances,
                       layers |-> IF new_dist <= radius
                                  THEN [st.layers EXCEPT ![new_dist + 1] = Append(@, n)]
                                  ELSE st.layers],
                      radius, g)
             ELSE LayeredNeighbors(nbrs, i + 1, current_dist, st, radius, g)

\* bfs_scan_layered: "while queue"
RECURSIVE LayeredLoop(_, _, _)
LayeredLoop(st, radius, g) ==
    IF st.queue = <<>> THEN st.layers
    ELSE LET current == Head(st.queue)
             current_dist == st.distances[current]
             popped == [st EXCEPT !.queue = Tail(st.queue)]
         IN  IF current_dist >= radius
             THEN LayeredLoop(popped, radius, g)
             ELSE LayeredLoop(LayeredNeighbors(Neighbors(current), 1, current_dist, popped,
                                               radius, g), radius, g)

\* bfs_scan_layered
BfsScanLayered(start_pos, g, radius) ==
    LayeredLoop([queue |-> <<start_pos>>, visited |-> {start_pos},
                 distances |-> (start_pos :> 0),
                 layers |-> [d \in 1 .. radius + 1 |->
                                IF d = 1 THEN <<start_pos>> ELSE <<>>]], radius, g)

(* The grids, starts and goals handed to the pathfinder *)

PathCells == (0 .. PathSize - 1) \X (0 .. PathSize - 1)

\* Tile.__init__: a floor tile of cost 1
FloorTile == [type |-> "floor", cost |-> 1]
\* PlayingState._build_action: a built wall
WallTile == [type |-> "wall", cost |-> 999]
\* PlayingState._build_trap: a trap
TrapTile == [type |-> "trap", cost |-> 5]

\* The wall layouts tried: no wall, one wall, a full column (a partition) or a
\* column with one gap, or the ring of cells around one cell (a walled-in
\* start or goal).
WallSets ==
    {{}}
    \cup {{c} : c \in PathCells}
    \cup {{c \in PathCells : c[1] = col /\ c[2] # gap} :
             col \in 0 .. PathSize - 1, gap \in -1 .. PathSize - 1}
    \cup {{c \in PathCells : Heuristic(c, mid) = 1} : mid \in PathCells}

\* The trap layouts tried: any part of the row y = 1.
TrapSets == SUBSET {c \in PathCells : c[2] = 1}

PathTiles(walls, traps) ==
    [c \in PathCells |-> IF c \in walls THEN WallTile
                         ELSE IF c \in traps THEN TrapTile
                         ELSE FloorTile]

PathGrids ==
    {[width |-> PathSize, height |-> PathSize, tiles |-> PathTiles(walls, traps)] :
        walls \in WallSets, traps \in TrapSets}

\* goals: every cell of the grid and two cells outside it
PathGoals == PathCells \cup {<<-1, 0>>, <<PathSize - 1, PathSize>>}

-----------------------------------------------------------------------------
(* entities/enemy.py, entities/base_entity.py, entities/tile.py.            *)
(* Times are counted in units of 25 ms, so that half of every dt is whole.  *)

\* ENEMY_CONFIGS: speed (the move interval) and detection_range by type
SpeedOf(enemy_type) ==
    CASE enemy_type = "security_agent" -> 20    \* 0.5 s
      [] enemy_type = "elf" -> 14               \* 0.35 s
      [] enemy_type = "alpha_bear" -> 18        \* 0.45 s

DetectionRangeOf(enemy_type) ==
    CASE enemy_type = "security_agent" -> 8
      [] enemy_type = "elf" -> 10
      [] enemy_type = "alpha_bear" -> 6

HealthOf(enemy_type) ==
    CASE enemy_type = "security_agent" -> 30
      [] enemy_type = "elf" -> 20
      [] enemy_type = "alpha_bear" -> 80

ArmorOf(enemy_type) ==
    CASE enemy_type = "security_agent" -> 0
      [] enemy_type = "elf" -> 1
      [] enemy_type = "alpha_bear" -> 2

\* self.patrol_wait_duration = 1.5
PatrolWaitDuration == 60

\* TRAP_TYPES['trap_bind']['duration'] = 3.0, TRAP_TYPES['trap_gravity']['duration'] = 5.0
TrapEffect(trap_type) ==
    CASE trap_type = "trap_bind" -> [effect |-> "freeze", duration |-> 120, damage |-> 0]
      [] trap_type = "trap_gravity" -> [effect |-> "slow", duration |-> 200, damage |-> 1]
      [] OTHER -> [effect |-> "damage", duration |-> 0, damage |-> 5]

\* TrapConfig.COOLDOWN = 1.0
TrapCooldown == 40

\* a route generation that appends every drawn point
PatrolRouteAll(points, home, offsets) ==
    points \o [i \in 1 .. Len(offsets) |->
                 <<home[1] + offsets[i][1], home[2] + offsets[i][2]>>]

\* a route generation that keeps the drawn points away from home and leaves
\* the home itself out
PatrolRouteAway(points, home, offsets) ==
    SelectSeq(PatrolRouteAll(<<>>, home, offsets), LAMBDA pt : pt # home)

\* Enemy._generate_patrol_route with the drawn offsets (2 or 3 of them):
\* home first, then every drawn point that is not in the route yet.
RECURSIVE PatrolRoute(_, _, _)
PatrolRoute(points, home, offsets) ==
    IF offsets = <<>> THEN points
    ELSE LET pt == <<home[1] + Head(offsets)[1], home[2] + Head(offsets)[2]>>
         IN  IF pt \notin SeqToSet(points)
             THEN PatrolRoute(Append(points, pt), home, Tail(offsets))
             ELSE PatrolRoute(points, home, Tail(offsets))

\* BaseEntity.__init__ and Enemy.__init__
NewEnemy(x, y, enemy_type, offsets) ==
    [x |-> x, y |-> y,
     enemy_type |-> enemy_type,
     health |-> HealthOf(enemy_type),
     armor |-> ArmorOf(enemy_type),
     speed |-> SpeedOf(enemy_type),
     detection_range |-> DetectionRangeOf(enemy_type),
     state |-> "IDLE",
     path |-> <<>>,
     move_timer |-> 0,
     attack_cooldown |-> 0,
     patrol_points |-> PatrolRoute(<< <<x, y>> >>, <<x, y>>, offsets),
     current_patrol_index |-> 0,
     patrol_wait_timer |-> 0,
     frozen_timer |-> 0,
     slow_timer |-> 0,
     slow_factor_halves |-> 2]

\* HealthComponent.is_dead
IsDead(e) == e.health <= 0

\* HealthComponent.take_damage
TakeDamage(e, damage) ==
    LET actual_damage == IF damage - e.armor > 1 THEN damage - e.armor ELSE 1
    IN  [e EXCEPT !.health = IF e.health - actual_damage > 0
                             THEN e.health - actual_damage ELSE 0]

\* ENEMY_CONFIGS[enemy_type].damage
DamageOf(enemy_type) ==
    CASE enemy_type = "security_agent" -> 5
      [] enemy_type = "elf" -> 12
      [] enemy_type = "alpha_bear" -> 8

\* Enemy.attack_player: self.attack_cooldown = 1.0
AttackCooldown == 40

\* Player.__init__: health
PlayerHealth == 100

\* Player.take_damage
PlayerTakeDamage(p, damage) ==
    [p EXCEPT !.health = IF p.health - damage < 0 THEN 0 ELSE p.health - damage]

\* Player.is_dead
PlayerIsDead(p) == p.health <= 0

\* Enemy.check_caught_player (dist <= 1.5, on whole-numbered positions)
CheckCaughtPlayer(e, p) ==
    IF IsDead(e) THEN FALSE
    ELSE IF e.frozen_timer > 0 THEN FALSE
    ELSE 2 * (Abs(e.x - p.x) + Abs(e.y - p.y)) <= 3

\* attack_player that does not look at the cooldown
AttackPlayerEveryTick(e, p) ==
    [enemy |-> [e EXCEPT !.attack_cooldown = AttackCooldown],
     player |-> PlayerTakeDamage(p, DamageOf(e.enemy_type)),
     damage |-> DamageOf(e.enemy_type)]

\* Enemy.attack_player: the enemy and the player after the call, and the
\* damage it returns
AttackPlayer(e, p) ==
    IF e.attack_cooldown > 0
    THEN [enemy |-> e, player |-> p, damage |-> 0]
    ELSE [enemy |-> [e EXCEPT !.attack_cooldown = AttackCooldown],
          player |-> PlayerTakeDamage(p, DamageOf(e.enemy_type)),
          damage |-> DamageOf(e.enemy_type)]

\* apply_effect with a freeze that leaves the path alone
ApplyEffectKeepPath(e, effect_type, duration) ==
    IF effect_type = "freeze"
    THEN [e EXCEPT !.frozen_timer = duration]
    ELSE IF effect_type = "slow"
    THEN [e EXCEPT !.slow_timer = duration, !.slow_factor_halves = 1]
    ELSE e

\* apply_effect adding the new duration to what is left of the old one
ApplyEffectStacked(e, effect_type, duration) ==
    IF effect_type = "freeze"
    THEN [e EXCEPT !.frozen_timer = (IF e.frozen_timer > 0 THEN e.frozen_timer ELSE 0)
                                        + duration,
                   !.path = <<>>]
    ELSE IF effect_type = "slow"
    THEN [e EXCEPT !.slow_timer = (IF e.slow_timer > 0 THEN e.slow_timer ELSE 0)
                                      + duration,
                   !.slow_factor_halves = 1]
    ELSE e

\* Enemy.apply_effect
ApplyEffect(e, effect_type, duration) ==
    IF effect_type = "freeze"
    THEN [e EXCEPT !.frozen_timer = duration, !.path = <<>>]
    ELSE IF effect_type = "slow"
    THEN [e EXCEPT !.slow_timer = duration, !.slow_factor_halves = 1]
    ELSE e

\* a path request that heads straight for a target it does not validate
PatrolPathUnchecked(e, g) ==
    IF e.path = <<>>
    THEN LET target == e.patrol_points[e.current_patrol_index + 1]
         IN  IF InBounds(target, g) /\ GetTile(g, target).type # "wall"
             THEN [e EXCEPT !.path = AStar(<<e.x, e.y>>, target, g)]
             ELSE [e EXCEPT !.path = <<target>>]
    ELSE e

\* Enemy._update_patrol: "# Generate path to current patrol point if needed"
PatrolPath(e, g) ==
    IF e.path = <<>>
    THEN LET target == e.patrol_points[e.current_patrol_index + 1]
         IN  IF InBounds(target, g) /\ GetTile(g, target).type # "wall"
             THEN [e EXCEPT !.path = AStar(<<e.x, e.y>>, target, g)]
             ELSE e
    ELSE e

\* _update_patrol that moves on without looking at the wait timer
UpdatePatrolNoWait(e, g) ==
    IF e.patrol_points = <<>> THEN [e EXCEPT !.state = "IDLE"]
    ELSE LET e1 == [e EXCEPT !.state = "PATROL"]
             current_target == e1.patrol_points[e1.current_patrol_index + 1]
         IN  IF e1.x = current_target[1] /\ e1.y = current_target[2]
             THEN PatrolPath(
                    [e1 EXCEPT !.current_patrol_index =
                                   (e1.current_patrol_index + 1) % Len(e1.patrol_points),
                               !.patrol_wait_timer = PatrolWaitDuration], g)
             ELSE PatrolPath(e1, g)

\* _update_patrol that never moves on to the next patrol point
UpdatePatrolNoAdvance(e, g) ==
    IF e.patrol_points = <<>> THEN [e EXCEPT !.state = "IDLE"]
    ELSE PatrolPath([e EXCEPT !.state = "PATROL"], g)

\* Enemy._update_patrol (patrol_points[i + 1] is Python's patrol_points[i])
UpdatePatrol(e, g) ==
    IF e.patrol_points = <<>> THEN [e EXCEPT !.state = "IDLE"]
    ELSE LET e1 == [e EXCEPT !.state = "PATROL"]
             current_target == e1.patrol_points[e1.current_patrol_index + 1]
         IN  IF e1.x = current_target[1] /\ e1.y = current_target[2]
             THEN IF e1.patrol_wait_timer > 0 THEN e1
                  ELSE PatrolPath(
                         [e1 EXCEPT !.current_patrol_index =
                                        (e1.current_patrol_index + 1) % Len(e1.patrol_points),
                                    !.patrol_wait_timer = PatrolWaitDuration], g)
             ELSE PatrolPath(e1, g)

\* the detection test with the range itself included
DetectsInclusive(dist, detection_range) == dist <= detection_range

\* Enemy.update: "if dist < self.detection_range"
Detects(dist, detection_range) == dist < detection_range

\* hunting that asks for a path only when the enemy holds none
HuntKeepPath(e, p, g) ==
    [e EXCEPT !.state = "HUNTING",
              !.path = IF e.path = <<>> THEN AStar(<<e.x, e.y>>, <<p.x, p.y>>, g)
                       ELSE e.path]

\* Enemy.update: the branch taken when the player is detected
Hunt(e, p, g) ==
    [e EXCEPT !.state = "HUNTING",
              !.path = AStar(<<e.x, e.y>>, <<p.x, p.y>>, g)]

\* Enemy.update: the branch taken when the player is not detected
LosePlayer(e, g) ==
    IF e.state = "HUNTING"
    THEN UpdatePatrol([e EXCEPT !.state = "PATROL", !.path = <<>>], g)
    ELSE UpdatePatrol(e, g)

\* Enemy.update (BaseEntity.update only runs down damage_animation_timer, a
\* rendering timer that nothing here reads)
EnemyUpdated(e, dt, p, g) ==
    IF IsDead(e) THEN e
    ELSE LET e1 == IF e.attack_cooldown > 0
                   THEN [e EXCEPT !.attack_cooldown = e.attack_cooldown - dt]
                   ELSE e
             dist == Abs(e1.x - p.x) + Abs(e1.y - p.y)
         IN  IF Detects(dist, e1.detection_range)
             THEN Hunt(e1, p, g)
             ELSE LosePlayer(e1, g)

\* can_move looking at the path only
CanMoveAnyTime(e) == Len(e.path) > 0

\* MovementComponent.can_move
CanMove(e) == e.move_timer >= e.speed /\ Len(e.path) > 0

\* move_step that steps onto the next cell of the path and leaves it in the path
BaseMoveStepKeepPath(e, dt) ==
    LET e1 == [e EXCEPT !.move_timer = e.move_timer + dt]
    IN  IF e1.move_timer >= e1.speed /\ Len(e1.path) > 0
        THEN [e1 EXCEPT !.x = Head(e1.path)[1],
                        !.y = Head(e1.path)[2],
                        !.move_timer = 0]
        ELSE e1

\* BaseEntity.move_step
BaseMoveStep(e, dt) ==
    LET e1 == [e EXCEPT !.move_timer = e.move_timer + dt]
    IN  IF CanMove(e1)
        THEN [e1 EXCEPT !.x = Head(e1.path)[1],
                        !.y = Head(e1.path)[2],
                        !.path = Tail(e1.path),
                        !.move_timer = 0]
        ELSE e1

\* move_step without its frozen check
IsFrozenNever(e) == FALSE

\* Enemy.move_step: "if self.frozen_timer > 0"
IsFrozen(e) == e.frozen_timer > 0

\* move_step that forgets the slow factor
EnemyMovedFullDt(e, dt) ==
    IF e.frozen_timer > 0
    THEN [e EXCEPT !.frozen_timer = e.frozen_timer - dt]
    ELSE LET e1 == IF e.slow_timer > 0
                   THEN [e EXCEPT !.slow_timer = e.slow_timer - dt] ELSE e
             e2 == IF e1.patrol_wait_timer > 0
                   THEN [e1 EXCEPT !.patrol_wait_timer = e1.patrol_wait_timer - dt]
                   ELSE e1
         IN  BaseMoveStep(e2, dt)

\* Enemy.move_step; dt * slow_factor is dt * slow_factor_halves / 2
EnemyMoved(e, dt) ==
    IF IsFrozen(e)
    THEN [e EXCEPT !.frozen_timer = e.frozen_timer - dt]
    ELSE LET slowed == e.slow_timer > 0
             current_dt == IF slowed THEN (dt * e.slow_factor_halves) \div 2 ELSE dt
             e1 == IF slowed THEN [e EXCEPT !.slow_timer = e.slow_timer - dt] ELSE e
             e2 == IF e1.patrol_wait_timer > 0
                   THEN [e1 EXCEPT !.patrol_wait_timer = e1.patrol_wait_timer - current_dt]
                   ELSE e1
         IN  BaseMoveStep(e2, current_dt)

\* Tile.trigger_trap: does the trap on this tile go off
TrapFires(tile) == tile.type = "trap" /\ ~(tile.trap_cooldown > 0)

\* Tile.update
TileUpdated(tile, dt) ==
    IF tile.trap_cooldown > 0
    THEN [tile EXCEPT !.trap_cooldown = tile.trap_cooldown - dt]
    ELSE tile

-----------------------------------------------------------------------------
(* The grids, routes and positions of the enemy model *)

EnemyCells == (0 .. EnemyWidth - 1) \X (0 .. 1)

PlainTile(type, cost) ==
    [type |-> type, cost |-> cost, trap_type |-> "none", trap_cooldown |-> 0]

\* PlayingState._build_trap on a floor tile
BuiltTrap(trap_type) ==
    [type |-> "trap", cost |-> 5, trap_type |-> trap_type, trap_cooldown |-> 0]

\* Layouts tried: open; a wall at (3,0) and a bind trap at (1,0); a wall at
\* (2,0) and a bind trap at (3,0).
EnemyGrids ==
    {[width |-> EnemyWidth, height |-> 2,
      tiles |-> [c \in EnemyCells |->
                    IF c = <<wx, 0>> THEN PlainTile("wall", 999)
                    ELSE IF c = <<tx, 0>> THEN BuiltTrap("trap_bind")
                    ELSE PlainTile("floor", 1)]] :
        <<wx, tx>> \in {<<-1, -1>>, <<3, 1>>, <<2, 3>>}}

\* The draws of _generate_patrol_route that are tried: one with a repeated
\* offset, two that lead off the grid, one that draws the home itself.
PatrolDraws ==
    {<< <<2, 0>>, <<2, 0>> >>,
     << <<2, 0>>, <<-1, 1>> >>,
     << <<-1, 1>>, <<0, 0>>, <<2, 0>> >>}

EnemyTypes == {"alpha_bear", "security_agent"}

EnemyHomes == {<<1, 1>>}

\* the frame time: 0.4 s, under every move interval
DtChoices == {16}

-----------------------------------------------------------------------------
(* The generator as a state machine *)

GenInit ==
    /\ gen_pc = "seed"
    /\ map_grid = [c \in GenCells |-> FALSE]
    /\ iterations \in 0 .. MaxIterations
    /\ rounds = 0
    /\ largest_region = <<>>
    /\ placed = 0
    /\ attempts = 0
    /\ spawn = NoPos
    /\ exit_pos = NoPos

\* generate, step 1
Seed ==
    /\ gen_pc = "seed"
    /\ \E floor \in SeedFloorSets : map_grid' = SeedMap(floor)
    /\ gen_pc' = "smooth"
    /\ UNCHANGED <<iterations, rounds, largest_region, placed, attempts, spawn, exit_pos>>
    /\ UNCHANGED <<pathVars, enemyVars, restVars>>

\* generate, step 2: one round of "for _ in range(iterations)"
Smooth ==
    /\ gen_pc = "smooth"
    /\ rounds < iterations
    /\ map_grid' = SmoothMap(map_grid)
    /\ rounds' = rounds + 1
    /\ UNCHANGED <<gen_pc, iterations, largest_region, placed, attempts, spawn, exit_pos>>
    /\ UNCHANGED <<pathVars, enemyVars, restVars>>

\* generate, step 3
Connect ==
    /\ gen_pc = "smooth"
    /\ rounds = iterations
    /\ LET r == ConnectCaves(map_grid)
       IN  /\ map_grid' = r[1]
           /\ largest_region' = r[2]
    /\ gen_pc' = "pillars"
    /\ UNCHANGED <<iterations, rounds, placed, attempts, spawn, exit_pos>>
    /\ UNCHANGED <<pathVars, enemyVars, restVars>>

\* generate, step 4: one iteration of the loop of _add_pillars
PillarAttempt ==
    /\ gen_pc = "pillars"
    /\ placed < PillarCount /\ attempts < MaxAttempts
    /\ \E px \in 3 .. GenWidth - 4, py \in 3 .. GenHeight - 4,
          extend \in BOOLEAN, direction \in PillarDirections :
          LET r == PillarStep(map_grid, placed, px, py, extend, direction)
          IN  /\ map_grid' = r[1]
              /\ placed' = r[2]
    /\ attempts' = attempts + 1
    /\ UNCHANGED <<gen_pc, iterations, rounds, largest_region, spawn, exit_pos>>
    /\ UNCHANGED <<pathVars, enemyVars, restVars>>

\* the loop of _add_pillars ends and generate returns map_grid
GenReturn ==
    /\ gen_pc = "pillars"
    /\ ~(placed < PillarCount /\ attempts < MaxAttempts)
    /\ gen_pc' = "generated"
    /\ UNCHANGED <<map_grid, iterations, rounds, largest_region, placed, attempts,
                   spawn, exit_pos>>
    /\ UNCHANGED <<pathVars, enemyVars, restVars>>

\* the parameters Grid.__init__ takes besides self
GridParameters == <<"width", "height", "level">>

\* init_level calls Grid(gen_width, gen_height, level=level_num, layout=layout)
GridPositional == 2
GridKeywords == {"level", "layout"}

\* Python binds the call: a keyword that is no parameter, or that names a
\* parameter a positional argument has filled, raises TypeError
GridCallBinds ==
    \A k \in GridKeywords :
        \E i \in GridPositional + 1 .. Len(GridParameters) : GridParameters[i] = k

\* init_level after generate: the Grid is built, then the player spawn and the
\* exit are chosen; a TypeError of the Grid call leaves init_level at once
InitLevel ==
    /\ gen_pc = "generated"
    /\ IF GridCallBinds
       THEN /\ spawn' = SpawnOf(largest_region)
            /\ exit_pos' \in ExitChoices(largest_region, SpawnOf(largest_region))
            /\ gen_pc' = "level"
       ELSE /\ gen_pc' = "raised"
            /\ UNCHANGED <<spawn, exit_pos>>
    /\ UNCHANGED <<map_grid, iterations, rounds, largest_region, placed, attempts>>
    /\ UNCHANGED <<pathVars, enemyVars, restVars>>

GenNext ==
    \/ Seed
    \/ Smooth
    \/ Connect
    \/ PillarAttempt
    \/ GenReturn
    \/ InitLevel

PathIdle ==
    /\ grid = <<>>
    /\ q_kind = "none"
    /\ q_start = NoPos
    /\ q_goal = NoPos
    /\ q_radius = 0
    /\ called = {}
    /\ path_result = <<>>
    /\ scan_result = <<>>
    /\ layers_result = <<>>

GenIdle ==
    /\ gen_pc = "off"
    /\ map_grid = <<>>
    /\ iterations = 0
    /\ rounds = 0
    /\ largest_region = <<>>
    /\ placed = 0
    /\ attempts = 0
    /\ spawn = NoPos
    /\ exit_pos = NoPos

-----------------------------------------------------------------------------
(* One request to the pathfinder *)

PathInit ==
    /\ grid \in PathGrids
    /\ q_start \in PathCells
    /\ \/ q_kind = "a_star" /\ q_goal \in PathGoals /\ q_radius = 0
       \/ q_kind = "scan" /\ q_goal = NoPos /\ q_radius \in 0 .. MaxRadius
    /\ called = {}
    /\ path_result = <<>>
    /\ scan_result = <<>>
    /\ layers_result = <<>>

CallAStar ==
    /\ q_kind = "a_star"
    /\ "a_star" \notin called
    /\ called' = called \cup {"a_star"}
    /\ path_result' = AStar(q_start, q_goal, grid)
    /\ UNCHANGED <<grid, q_kind, q_start, q_goal, q_radius, scan_result, layers_result>>
    /\ UNCHANGED <<genVars, enemyVars, restVars>>

CallBfsScan ==
    /\ q_kind = "scan"
    /\ "bfs_scan" \notin called
    /\ called' = called \cup {"bfs_scan"}
    /\ scan_result' = BfsScan(q_start, grid, q_radius)
    /\ UNCHANGED <<grid, q_kind, q_start, q_goal, q_radius, path_result, layers_result>>
    /\ UNCHANGED <<genVars, enemyVars, restVars>>

CallBfsScanLayered ==
    /\ q_kind = "scan"
    /\ "bfs_scan_layered" \notin called
    /\ called' = called \cup {"bfs_scan_layered"}
    /\ layers_result' = BfsScanLayered(q_start, grid, q_radius)
    /\ UNCHANGED <<grid, q_kind, q_start, q_goal, q_radius, path_result, scan_result>>
    /\ UNCHANGED <<genVars, enemyVars, restVars>>

PathNext ==
    \/ CallAStar
    \/ CallBfsScan
    \/ CallBfsScanLayered

EnemyIdle ==
    /\ enemy = <<>>
    /\ player = <<>>
    /\ tick_pc = "off"
    /\ tick_dt = 0
    /\ before = <<>>

CallIdle ==
    /\ last_call = <<>>
    /\ calls = 0

ShadowIdle ==
    /\ shadow = <<>>
    /\ enemies = <<>>

CombatIdle == since_attack = 0

GameIdle ==
    /\ engine = <<>>
    /\ renderer = <<>>
    /\ menus = <<>>
    /\ hist = <<>>

RestIdle == CallIdle /\ ShadowIdle /\ CombatIdle /\ GameIdle

\* a pathfinder request on its own: no generator, no enemy
PathStart == GenIdle /\ EnemyIdle /\ RestIdle /\ PathInit

SpecPath == PathStart /\ [][PathNext]_vars

\* the generator on its own
GenStart == GenInit /\ PathIdle /\ EnemyIdle /\ RestIdle

SpecGen == GenStart /\ [][GenNext]_vars

\* some step of generate or init_level is left to take; every step moves
\* gen_pc, rounds or attempts
GenGoesOn ==
    /\ gen_pc \notin {"level", "raised"}
    /\ gen_pc' \in {"smooth", "pillars", "generated", "level", "raised"}
    /\ rounds' \in 0 .. MaxIterations
    /\ attempts' \in 0 .. MaxAttempts
    /\ <<gen_pc', rounds', attempts'>> # <<gen_pc, rounds, attempts>>

\* generate and init_level are straight-line code and loops that nothing
\* suspends: a step that can be taken is taken
SpecGenFair ==
    GenStart /\ [][GenNext]_vars /\ WF_<<gen_pc, rounds, attempts>>(GenGoesOn)

-----------------------------------------------------------------------------
(* One enemy and the player on a grid, tick by tick *)

EnemyInit ==
    /\ grid \in EnemyGrids
    /\ \E home \in EnemyHomes, enemy_type \in EnemyTypes, offsets \in PatrolDraws :
          enemy = NewEnemy(home[1], home[2], enemy_type, offsets)
    /\ \E c \in EnemyCells :
          /\ grid.tiles[c].type # "wall"
          /\ player = [x |-> c[1], y |-> c[2]]
    /\ tick_pc = "idle"
    /\ tick_dt = 0
    /\ before = <<>>
    /\ q_kind = "none"
    /\ q_start = NoPos
    /\ q_goal = NoPos
    /\ q_radius = 0
    /\ called = {}
    /\ path_result = <<>>
    /\ scan_result = <<>>
    /\ layers_result = <<>>

\* Player.update finishing a move onto a neighbouring tile (Player.move and
\* Player.start_move_to refuse walls and cells outside the grid)
PlayerMove ==
    /\ tick_pc = "idle"
    /\ \E c \in EnemyCells :
          /\ Abs(c[1] - player.x) + Abs(c[2] - player.y) = 1
          /\ grid.tiles[c].type # "wall"
          /\ player' = [player EXCEPT !.x = c[1], !.y = c[2]]
    /\ UNCHANGED <<enemy, tick_pc, tick_dt, before, grid, genVars, restVars,
                   q_kind, q_start, q_goal, q_radius, called, path_result, scan_result,
                   layers_result>>

\* PlayingState.update: enemy.update(dt, player, grid, pathfinding)
EnemyUpdate ==
    /\ tick_pc = "idle"
    /\ \E dt \in DtChoices :
          /\ tick_dt' = dt
          /\ enemy' = EnemyUpdated(enemy, dt, player, grid)
    /\ before' = [state |-> enemy.state, path |-> enemy.path]
    /\ tick_pc' = "updated"
    /\ UNCHANGED <<player, grid, genVars, restVars,
                   q_kind, q_start, q_goal, q_radius, called, path_result, scan_result,
                   layers_result>>

\* PlayingState.update: enemy.move_step(dt)
EnemyMoveStep ==
    /\ tick_pc = "updated"
    /\ enemy.move_timer + tick_dt <= MaxMoveTimer
    /\ enemy' = EnemyMoved(enemy, tick_dt)
    /\ before' = <<>>
    /\ tick_pc' = "moved"
    /\ UNCHANGED <<player, tick_dt, grid, genVars, restVars,
                   q_kind, q_start, q_goal, q_radius, called, path_result, scan_result,
                   layers_result>>

\* PlayingState.update: _check_trap_triggers, then tile.update(dt) on every tile
TrapsAndTiles ==
    /\ tick_pc = "moved"
    /\ LET here == <<enemy.x, enemy.y>>
           fires == TrapFires(grid.tiles[here])
           effect == TrapEffect(grid.tiles[here].trap_type)
           triggered == IF fires
                        THEN [grid.tiles EXCEPT ![here].trap_cooldown = TrapCooldown]
                        ELSE grid.tiles
           damaged == IF fires /\ effect.damage > 0
                      THEN TakeDamage(enemy, effect.damage)
                      ELSE enemy
       IN  /\ enemy' = IF fires /\ effect.effect \in {"freeze", "slow"}
                       THEN ApplyEffect(damaged, effect.effect, effect.duration)
                       ELSE damaged
           /\ grid' = [grid EXCEPT !.tiles =
                          [c \in EnemyCells |-> TileUpdated(triggered[c], tick_dt)]]
    /\ tick_pc' = "idle"
    /\ UNCHANGED <<player, tick_dt, before, genVars, restVars,
                   q_kind, q_start, q_goal, q_radius, called, path_result, scan_result,
                   layers_result>>

EnemyNext ==
    \/ PlayerMove
    \/ EnemyUpdate
    \/ EnemyMoveStep
    \/ TrapsAndTiles

\* a level in play: the generator has long returned
EnemyStart == GenIdle /\ RestIdle /\ EnemyInit

SpecEnemy == EnemyStart /\ [][EnemyNext]_vars

-----------------------------------------------------------------------------
(* The whole enemy part of PlayingState.update, the catch of the player     *)
(* included: update, move_step, check_caught_player and attack_player, then *)
(* traps and tiles.  The game stops when the player dies.                   *)

\* the health of a player that has taken all but the last attacks of an enemy
\* of this type
WornDown(enemy_type) ==
    PlayerHealth - DamageOf(enemy_type) * ((PlayerHealth \div DamageOf(enemy_type)) - 2)

\* the layout with the bind trap next to the enemy's home
CombatGrids == {g \in EnemyGrids : g.tiles[<<1, 0>>].trap_type # "none"}

CombatDraws == {<< <<2, 0>>, <<-1, 1>> >>}

CombatInit ==
    /\ grid \in CombatGrids
    /\ \E home \in EnemyHomes, enemy_type \in EnemyTypes, offsets \in CombatDraws :
          /\ enemy = NewEnemy(home[1], home[2], enemy_type, offsets)
          /\ \E c \in EnemyCells, health \in {PlayerHealth, WornDown(enemy_type)} :
                /\ grid.tiles[c].type # "wall"
                /\ player = [x |-> c[1], y |-> c[2], health |-> health]
    /\ since_attack = -1
    /\ tick_pc = "idle"
    /\ tick_dt = 0
    /\ before = <<>>
    /\ q_kind = "none"
    /\ q_start = NoPos
    /\ q_goal = NoPos
    /\ q_radius = 0
    /\ called = {}
    /\ path_result = <<>>
    /\ scan_result = <<>>
    /\ layers_result = <<>>

\* PlayingState.update: enemy.move_step(dt), with the catch still to come
\* (an enemy left without a path lets move_timer grow with every tick: the
\* model follows it up to MaxMoveTimer)
CombatMoveStep ==
    /\ tick_pc = "updated"
    /\ EnemyMoved(enemy, tick_dt).move_timer <= MaxMoveTimer
    /\ enemy' = EnemyMoved(enemy, tick_dt)
    /\ before' = <<>>
    /\ tick_pc' = "stepped"
    /\ UNCHANGED <<player, tick_dt, grid, genVars, restVars,
                   q_kind, q_start, q_goal, q_radius, called, path_result, scan_result,
                   layers_result>>

\* PlayingState.update: check_caught_player, attack_player and the return of
\* GAME_OVER.  since_attack is the tick time since the last attack that landed
\* (-1: none has landed), counted up to AttackCooldown.
CatchPlayer ==
    /\ tick_pc = "stepped"
    /\ LET caught == CheckCaughtPlayer(enemy, player)
           hit == AttackPlayer(enemy, player)
           landed == caught /\ hit.damage > 0
           elapsed == IF since_attack < 0 THEN since_attack
                      ELSE IF since_attack + tick_dt > AttackCooldown
                           THEN AttackCooldown
                           ELSE since_attack + tick_dt
       IN  /\ enemy' = IF caught THEN hit.enemy ELSE enemy
           /\ player' = IF caught THEN hit.player ELSE player
           /\ since_attack' = IF landed THEN 0 ELSE elapsed
           /\ tick_pc' = IF landed /\ PlayerIsDead(hit.player)
                          THEN "game_over" ELSE "moved"
    /\ UNCHANGED <<tick_dt, before, grid, genVars, gameVars, callVars, shadowVars,
                   q_kind, q_start, q_goal, q_radius, called, path_result, scan_result,
                   layers_result>>

CombatNext ==
    \/ PlayerMove
    \/ EnemyUpdate
    \/ CombatMoveStep
    \/ CatchPlayer
    \/ TrapsAndTiles

CombatStart == GenIdle /\ GameIdle /\ CallIdle /\ ShadowIdle /\ CombatInit

SpecCombat == CombatStart /\ [][CombatNext]_vars

-----------------------------------------------------------------------------
(* Patrol: the same tick, run again and again by the game loop, with a      *)
(* player that stands still at the far end of the grid, beyond the          *)
(* detection range of an alpha_bear on any cell of its route, on a grid     *)
(* without traps.                                                           *)

PatrolGrids ==
    {[width |-> EnemyWidth, height |-> 2,
      tiles |-> [c \in EnemyCells |->
                    IF c = <<1, 0>> THEN PlainTile("wall", 999)
                    ELSE PlainTile("floor", 1)]]}

\* draws of _generate_patrol_route around the home <<1, 1>>: three points, two
\* points that are not neighbours, the home alone, three points in the other
\* order
PatrolOffsets ==
    {<< <<-1, 0>>, <<-1, -1>> >>,
     << <<-1, -1>>, <<-1, -1>> >>,
     << <<0, 0>>, <<0, 0>> >>,
     << <<-1, -1>>, <<0, 0>>, <<-1, 0>> >>,
     << <<-1, 0>>, <<0, 0>> >>}

PatrolInit ==
    /\ grid \in PatrolGrids
    /\ \E home \in EnemyHomes, offsets \in PatrolOffsets :
          enemy = NewEnemy(home[1], home[2], "alpha_bear", offsets)
    /\ player = [x |-> EnemyWidth - 1, y |-> 0, health |-> PlayerHealth]
    /\ since_attack = -1
    /\ tick_pc = "idle"
    /\ tick_dt = 0
    /\ before = <<>>
    /\ q_kind = "none"
    /\ q_start = NoPos
    /\ q_goal = NoPos
    /\ q_radius = 0
    /\ called = {}
    /\ path_result = <<>>
    /\ scan_result = <<>>
    /\ layers_result = <<>>

PatrolNext ==
    \/ EnemyUpdate
    \/ CombatMoveStep
    \/ CatchPlayer
    \/ TrapsAndTiles

PatrolStart == GenIdle /\ GameIdle /\ CallIdle /\ ShadowIdle /\ PatrolInit

\* the tick goes on: enabled exactly where PatrolNext is, and a step of
\* PatrolNext is a step of TickGoesOn
TickGoesOn ==
    /\ tick_pc \in {"idle", "updated", "stepped", "moved"}
    /\ tick_pc = "updated" => EnemyMoved(enemy, tick_dt).move_timer <= MaxMoveTimer
    /\ tick_pc' \in {"idle", "updated", "stepped", "moved", "game_over"} \ {tick_pc}

\* GameEngine.run calls PlayingState.update frame after frame: a tick that
\* can go on does go on
SpecPatrol == PatrolStart /\ [][PatrolNext]_vars /\ WF_tick_pc(TickGoesOn)

-----------------------------------------------------------------------------
(* The patrol of an alpha bear over a trap the player built on its route:   *)
(* PlayingState._check_trap_triggers runs at the end of every tick.         *)

\* the cells next to the home <<1, 1>> that the route of PatrolOffsets visits
FreezeTrapCells == {<<0, 1>>, <<0, 0>>}

FreezeGrids ==
    {[width |-> EnemyWidth, height |-> 2,
      tiles |-> [c \in EnemyCells |->
                    IF c = <<1, 0>> THEN PlainTile("wall", 999)
                    ELSE IF c = at THEN BuiltTrap(trap_type)
                    ELSE PlainTile("floor", 1)]] :
        at \in FreezeTrapCells, trap_type \in {"trap_bind", "trap_gravity"}}

FreezeInit ==
    /\ grid \in FreezeGrids
    /\ \E home \in EnemyHomes, offsets \in PatrolOffsets :
          enemy = NewEnemy(home[1], home[2], "alpha_bear", offsets)
    /\ player = [x |-> EnemyWidth - 1, y |-> 0, health |-> PlayerHealth]
    /\ since_attack = -1
    /\ tick_pc = "idle"
    /\ tick_dt = 0
    /\ before = <<>>
    /\ q_kind = "none"
    /\ q_start = NoPos
    /\ q_goal = NoPos
    /\ q_radius = 0
    /\ called = {}
    /\ path_result = <<>>
    /\ scan_result = <<>>
    /\ layers_result = <<>>

FreezeStart == GenIdle /\ GameIdle /\ CallIdle /\ ShadowIdle /\ FreezeInit

SpecFreeze == FreezeStart /\ [][PatrolNext]_vars /\ WF_tick_pc(TickGoesOn)

\* C34: every freeze ends: an enemy whose frozen_timer is positive has, under
\* continued ticks, a frozen_timer of zero or below later on, also while it
\* stands on the trap tile that froze it.
C34_FreezeEnds == (enemy.frozen_timer > 0) ~> ~(enemy.frozen_timer > 0)

-----------------------------------------------------------------------------
(* Shadow: one shadow summoned on the player's tile, a list of enemies, and *)
(* Shadow.update called between the enemies' and the player's moves.        *)
(* Times are in units of 25 ms, as for the enemy.                           *)

\* SHADOW_CONFIGS[shadow_type].health
ShadowHealthOf(shadow_type) ==
    CASE shadow_type = "shadow" -> 40
      [] shadow_type = "igris" -> 60
      [] shadow_type = "beru" -> 50

\* SHADOW_CONFIGS[shadow_type].damage
ShadowDamageOf(shadow_type) ==
    CASE shadow_type = "shadow" -> 5
      [] shadow_type = "igris" -> 15
      [] shadow_type = "beru" -> 20

\* SHADOW_CONFIGS[shadow_type].speed: 0.4, 0.3, 0.35 s
ShadowSpeedOf(shadow_type) ==
    CASE shadow_type = "shadow" -> 16
      [] shadow_type = "igris" -> 12
      [] shadow_type = "beru" -> 14

\* Shadow.attack_enemy: self.combat_cooldown = 0.3
CombatCooldown == 12

\* BaseEntity.__init__ and Shadow.__init__ (target_enemy 0: None)
NewShadow(x, y, shadow_type) ==
    [x |-> x, y |-> y,
     shadow_type |-> shadow_type,
     health |-> ShadowHealthOf(shadow_type),
     armor |-> 0,
     speed |-> ShadowSpeedOf(shadow_type),
     damage |-> ShadowDamageOf(shadow_type),
     state |-> "IDLE",
     path |-> <<>>,
     move_timer |-> 0,
     combat_cooldown |-> 0,
     target_enemy |-> 0]

\* abs(self.x - e.x) + abs(self.y - e.y)
DistTo(s, e) == Abs(s.x - e.x) + Abs(s.y - e.y)

\* Shadow.attack_enemy on enemies[i]: the shadow and the enemies after the call
AttackEnemy(s, es, i) ==
    IF IsDead(s) THEN [shadow |-> s, enemies |-> es]
    ELSE IF s.x # es[i].x \/ s.y # es[i].y THEN [shadow |-> s, enemies |-> es]
    ELSE [shadow |-> [s EXCEPT !.combat_cooldown = CombatCooldown],
          enemies |-> [es EXCEPT ![i] = TakeDamage(es[i], s.damage)]]

\* min(alive_enemies, key=distance): the first of the nearest, in list order
ClosestAlive(s, es) ==
    LET alive == {i \in DOMAIN es : ~IsDead(es[i])}
    IN  CHOOSE i \in alive :
            \A j \in alive :
                \/ DistTo(s, es[i]) < DistTo(s, es[j])
                \/ DistTo(s, es[i]) = DistTo(s, es[j]) /\ i <= j

\* Shadow._update_idle_state
UpdateIdleState(s, p, g) ==
    IF DistTo(s, p) > 2
    THEN [s EXCEPT !.path = AStar(<<s.x, s.y>>, <<p.x, p.y>>, g)]
    ELSE s

\* _update_attack_state that stays in ATTACK when no enemy is left alive
UpdateAttackStateStay(s, es, g) ==
    IF \A i \in DOMAIN es : IsDead(es[i])
    THEN [shadow |-> [s EXCEPT !.path = <<>>, !.target_enemy = 0], enemies |-> es]
    ELSE LET t == ClosestAlive(s, es)
             s1 == [s EXCEPT !.target_enemy = t]
         IN  IF DistTo(s1, es[t]) <= 1 /\ s1.combat_cooldown <= 0
             THEN AttackEnemy(s1, es, t)
             ELSE IF s1.combat_cooldown <= 0
                  THEN [shadow |-> [s1 EXCEPT !.path =
                                       AStar(<<s1.x, s1.y>>, <<es[t].x, es[t].y>>, g)],
                        enemies |-> es]
                  ELSE [shadow |-> s1, enemies |-> es]

\* Shadow._update_attack_state
UpdateAttackState(s, es, g) ==
    IF \A i \in DOMAIN es : IsDead(es[i])
    THEN [shadow |-> [s EXCEPT !.state = "IDLE", !.path = <<>>, !.target_enemy = 0],
          enemies |-> es]
    ELSE LET t == ClosestAlive(s, es)
             s1 == [s EXCEPT !.target_enemy = t]
             dist_to_target == DistTo(s1, es[t])
         IN  IF dist_to_target <= 1 /\ s1.combat_cooldown <= 0
             THEN AttackEnemy(s1, es, t)
             ELSE IF s1.combat_cooldown <= 0
                  THEN [shadow |-> [s1 EXCEPT !.path =
                                       AStar(<<s1.x, s1.y>>, <<es[t].x, es[t].y>>, g)],
                        enemies |-> es]
                  ELSE [shadow |-> s1, enemies |-> es]

\* Shadow.update (damage_animation_timer is a rendering timer that nothing
\* here reads)
ShadowUpdated(s, dt, p, es, g) ==
    IF IsDead(s) THEN [shadow |-> s, enemies |-> es]
    ELSE LET s1 == [s EXCEPT !.move_timer = s.move_timer + dt,
                             !.combat_cooldown = IF s.combat_cooldown - dt > 0
                                                 THEN s.combat_cooldown - dt ELSE 0]
             r == IF s1.state = "IDLE"
                  THEN [shadow |-> UpdateIdleState(s1, p, g), enemies |-> es]
                  ELSE IF s1.state = "ATTACK"
                       THEN UpdateAttackState(s1, es, g)
                       ELSE [shadow |-> s1, enemies |-> es]
             s2 == r.shadow
         IN  [shadow |-> IF CanMove(s2)
                         THEN [s2 EXCEPT !.x = Head(s2.path)[1],
                                         !.y = Head(s2.path)[2],
                                         !.path = Tail(s2.path),
                                         !.move_timer = 0]
                         ELSE s2,
              enemies |-> r.enemies]

ShadowTypes == {"shadow", "igris", "beru"}

ShadowDts == {8, 16}

\* a security_agent at cell c, fresh or after one attack of the player
\* (Player.damage 25)
Foe(c, health) ==
    [NewEnemy(c[1], c[2], "security_agent", <<>>) EXCEPT !.health = health]

FoeLists ==
    {<<Foe(c, h)>> : c \in {<<2, 1>>, <<3, 1>>}, h \in {30, 30 - 25}}
        \cup {<<Foe(<<4, 1>>, 30), Foe(<<2, 0>>, 30 - 25)>>}

ShadowInit ==
    /\ grid \in CombatGrids
    /\ player = [x |-> 1, y |-> 1]
    /\ \E shadow_type \in ShadowTypes :
          shadow = NewShadow(player.x, player.y, shadow_type)
    /\ enemies \in FoeLists
    /\ last_call = <<>>
    /\ calls = 0
    /\ enemy = <<>>
    /\ tick_pc = "off"
    /\ tick_dt = 0
    /\ before = <<>>
    /\ q_kind = "none"
    /\ q_start = NoPos
    /\ q_goal = NoPos
    /\ q_radius = 0
    /\ called = {}
    /\ path_result = <<>>
    /\ scan_result = <<>>
    /\ layers_result = <<>>

ShadowFrame ==
    UNCHANGED <<enemy, tick_pc, tick_dt, before, grid, genVars, gameVars, combatVars,
                q_kind, q_start, q_goal, q_radius, called, path_result, scan_result,
                layers_result>>

\* PlayingState.update: shadow.update(dt, player, enemies, grid, pathfinding)
ShadowUpdate ==
    /\ calls < MaxShadowCalls
    /\ \E dt \in ShadowDts :
          LET r == ShadowUpdated(shadow, dt, player, enemies, grid)
          IN  /\ shadow' = r.shadow
              /\ enemies' = r.enemies
              /\ last_call' = [op |-> "Shadow.update", dt |-> dt,
                               pre |-> shadow, enemies |-> enemies]
    /\ calls' = calls + 1
    /\ UNCHANGED player
    /\ ShadowFrame

\* PlayingState._toggle_shadow_attack
ToggleShadowAttack ==
    /\ calls < MaxShadowCalls
    /\ shadow' = [shadow EXCEPT !.state = IF shadow.state = "IDLE"
                                          THEN "ATTACK" ELSE "IDLE"]
    /\ last_call' = [op |-> "_toggle_shadow_attack"]
    /\ calls' = calls + 1
    /\ UNCHANGED <<player, enemies>>
    /\ ShadowFrame

\* BaseEntity.move_step of a living enemy that takes it onto the next cell of
\* its path, whichever neighbouring cell that is
FoeStep ==
    /\ calls < MaxShadowCalls
    /\ \E i \in DOMAIN enemies, c \in EnemyCells :
          /\ ~IsDead(enemies[i])
          /\ Abs(c[1] - enemies[i].x) + Abs(c[2] - enemies[i].y) = 1
          /\ grid.tiles[c].type # "wall"
          /\ enemies' = [enemies EXCEPT ![i].x = c[1], ![i].y = c[2]]
    /\ last_call' = [op |-> "move_step"]
    /\ calls' = calls + 1
    /\ UNCHANGED <<player, shadow>>
    /\ ShadowFrame

\* Player.update finishing a move onto a neighbouring tile
PlayerStep ==
    /\ calls < MaxShadowCalls
    /\ \E c \in EnemyCells :
          /\ Abs(c[1] - player.x) + Abs(c[2] - player.y) = 1
          /\ grid.tiles[c].type # "wall"
          /\ player' = [player EXCEPT !.x = c[1], !.y = c[2]]
    /\ last_call' = [op |-> "Player.update"]
    /\ calls' = calls + 1
    /\ UNCHANGED <<shadow, enemies>>
    /\ ShadowFrame

ShadowNext ==
    \/ ShadowUpdate
    \/ ToggleShadowAttack
    \/ FoeStep
    \/ PlayerStep

ShadowStart == GenIdle /\ GameIdle /\ CombatIdle /\ ShadowInit

SpecShadow == ShadowStart /\ [][ShadowNext]_vars

-----------------------------------------------------------------------------
(* The shadow following a player who builds walls: the B key between two    *)
(* frames turns the tile under the player into a wall.                      *)

\* BuildCosts.WALL
BuildCostWall == 5

\* a wall build that looks at the tile only
BuildWallUnchecked(p, g) ==
    LET here == <<p.x, p.y>>
    IN  IF g.tiles[here].type = "floor"
        THEN [player |-> [p EXCEPT !.resources = p.resources - 5],
              grid |-> [g EXCEPT !.tiles[here].type = "wall",
                                 !.tiles[here].cost = 999]]
        ELSE [player |-> p, grid |-> g]

\* PlayingState._build_action('wall') on the tile under the player: the
\* player and the grid after the call
BuildWallAction(p, g) ==
    LET here == <<p.x, p.y>>
    IN  IF p.resources >= BuildCostWall /\ g.tiles[here].type = "floor"
        THEN [player |-> [p EXCEPT !.resources = p.resources - BuildCostWall],
              grid |-> [g EXCEPT !.tiles[here].type = "wall",
                                 !.tiles[here].cost = 999]]
        ELSE [player |-> p, grid |-> g]

\* where the player is when the run starts: on the tile of the summon, or
\* three steps along the row from it
WallsPlayerCells == {<<1, 1>>, <<4, 1>>}

WallsInit ==
    /\ grid \in CombatGrids
    /\ \E resources \in {0, BuildCostWall, 2 * BuildCostWall}, c \in WallsPlayerCells :
          player = [x |-> c[1], y |-> c[2], resources |-> resources]
    /\ \E shadow_type \in {"shadow", "igris"} :
          shadow = NewShadow(1, 1, shadow_type)
    /\ enemies \in {es \in FoeLists : Len(es) = 1 /\ es[1].health = 30}
    /\ last_call = <<>>
    /\ calls = 0
    /\ enemy = <<>>
    /\ tick_pc = "off"
    /\ tick_dt = 0
    /\ before = <<>>
    /\ q_kind = "none"
    /\ q_start = NoPos
    /\ q_goal = NoPos
    /\ q_radius = 0
    /\ called = {}
    /\ path_result = <<>>
    /\ scan_result = <<>>
    /\ layers_result = <<>>

\* PlayingState.handle_event: K_b, _build_action('wall')
BuildWall ==
    /\ calls < MaxShadowCalls
    /\ LET r == BuildWallAction(player, grid)
       IN  /\ player' = r.player
           /\ grid' = r.grid
    /\ last_call' = [op |-> "_build_action", pre |-> player, tile |-> grid.tiles[<<player.x, player.y>>]]
    /\ calls' = calls + 1
    /\ UNCHANGED <<shadow, enemies>>
    /\ UNCHANGED <<enemy, tick_pc, tick_dt, before, genVars, gameVars, combatVars,
                   q_kind, q_start, q_goal, q_radius, called, path_result,
                   scan_result, layers_result>>

WallsNext ==
    \/ ShadowUpdate
    \/ ToggleShadowAttack
    \/ FoeStep
    \/ PlayerStep
    \/ BuildWall

WallsStart == GenIdle /\ GameIdle /\ CombatIdle /\ WallsInit

SpecWalls == WallsStart /\ [][WallsNext]_vars

\* C35: a shadow never steps onto a wall tile: in every step that changes
\* its position the cell it moves to is, at that moment, not a wall,
\* whatever walls the player has built between the ticks.
C35_NeverOntoWall ==
    [][<<shadow'.x, shadow'.y>> # <<shadow.x, shadow.y>>
          => grid'.tiles[<<shadow'.x, shadow'.y>>].type # "wall"]_vars

-----------------------------------------------------------------------------
(* Enemy.__init__ on its own: every type, two homes, and draws of           *)
(* _generate_patrol_route that repeat an offset, draw the home itself and   *)
(* reach the corners of the offset range.                                   *)

\* random.randint(-4, 4): the largest offset on either axis
MaxOffset == 4

SpawnOffsets ==
    {<<0, 0>>, <<MaxOffset, MaxOffset>>, <<-MaxOffset, -MaxOffset>>,
     <<MaxOffset, -MaxOffset>>, <<2, 0>>, <<-1, 1>>}

\* num_points = random.randint(2, 3) draws
SpawnDraws ==
    {<<a, b>> : a \in SpawnOffsets, b \in SpawnOffsets}
    \cup {<<a, b, c>> : a \in SpawnOffsets, b \in SpawnOffsets, c \in SpawnOffsets}

SpawnHomes == {<<1, 1>>, <<5, 0>>}

SpawnInit ==
    /\ enemy = <<>>
    /\ player = <<>>
    /\ tick_pc = "off"
    /\ tick_dt = 0
    /\ before = <<>>
    /\ last_call = <<>>
    /\ calls = 0

\* Enemy(x, y, enemy_type)
Construct ==
    /\ enemy = <<>>
    /\ \E home \in SpawnHomes, enemy_type \in {"security_agent", "elf", "alpha_bear"},
          offsets \in SpawnDraws :
          /\ enemy' = NewEnemy(home[1], home[2], enemy_type, offsets)
          /\ last_call' = [op |-> "__init__", home |-> home, offsets |-> offsets]
    /\ calls' = calls + 1
    /\ UNCHANGED <<player, tick_pc, tick_dt, before, genVars, gameVars, pathVars, shadowVars,
                   combatVars>>

SpawnStart == GenIdle /\ GameIdle /\ PathIdle /\ ShadowIdle /\ CombatIdle /\ SpawnInit

SpecSpawn == SpawnStart /\ [][Construct]_vars

-----------------------------------------------------------------------------
(* The methods of one Enemy object called in any order, up to MaxCalls      *)
(* calls: update with the player standing still, move_step, apply_effect.   *)

\* the dt values handed to move_step: 0.2 s, 0.4 s and 1.2 s, the last one
\* more than twice every move interval
StepDts == {8, 16, 48}

\* the durations handed to apply_effect: those of trap_bind and trap_gravity
EffectDurations == {TrapEffect("trap_bind").duration, TrapEffect("trap_gravity").duration}

CallInit ==
    /\ grid \in {g \in EnemyGrids : g.tiles[<<3, 0>>].type = "wall"}
    /\ \E home \in EnemyHomes, enemy_type \in EnemyTypes, offsets \in PatrolDraws :
          enemy = NewEnemy(home[1], home[2], enemy_type, offsets)
    /\ \E c \in {<<0, 0>>, <<4, 0>>, <<EnemyWidth - 1, 1>>} :
          player = [x |-> c[1], y |-> c[2]]
    /\ tick_pc = "off"
    /\ tick_dt = 0
    /\ before = <<>>
    /\ q_kind = "none"
    /\ q_start = NoPos
    /\ q_goal = NoPos
    /\ q_radius = 0
    /\ called = {}
    /\ path_result = <<>>
    /\ scan_result = <<>>
    /\ layers_result = <<>>
    /\ last_call = <<>>
    /\ calls = 0

\* what no call on the enemy changes
CallFrame ==
    UNCHANGED <<player, tick_pc, tick_dt, before, genVars, gameVars, pathVars, shadowVars,
                combatVars>>

\* enemy.update(dt, player, grid, pathfinding)
CallUpdate ==
    /\ calls < MaxCalls
    /\ \E dt \in DtChoices :
          /\ enemy' = EnemyUpdated(enemy, dt, player, grid)
          /\ last_call' = [op |-> "update", dt |-> dt, pre |-> enemy]
    /\ calls' = calls + 1
    /\ CallFrame

\* enemy.move_step(dt)
CallMoveStep ==
    /\ calls < MaxCalls
    /\ \E dt \in StepDts :
          /\ enemy' = EnemyMoved(enemy, dt)
          /\ last_call' = [op |-> "move_step", dt |-> dt, pre |-> enemy]
    /\ calls' = calls + 1
    /\ CallFrame

\* enemy.apply_effect(effect_type, duration)
CallApplyEffect ==
    /\ calls < MaxCalls
    /\ \E effect_type \in {"freeze", "slow"}, duration \in EffectDurations :
          /\ enemy' = ApplyEffect(enemy, effect_type, duration)
          /\ last_call' = [op |-> "apply_effect", effect_type |-> effect_type,
                           duration |-> duration, pre |-> enemy]
    /\ calls' = calls + 1
    /\ CallFrame

CallNext ==
    \/ CallUpdate
    \/ CallMoveStep
    \/ CallApplyEffect

CallStart == GenIdle /\ GameIdle /\ ShadowIdle /\ CombatIdle /\ CallInit

SpecCalls == CallStart /\ [][CallNext]_vars

\* draws around the home <<1, 1>> on the patrol grid: those of PatrolOffsets,
\* one whose first point is the wall tile <<1, 0>>, one whose first point is
\* off the grid
PatrolCallDraws ==
    PatrolOffsets \cup {<< <<0, -1>>, <<-1, 0>> >>, << <<0, 1>>, <<-1, 0>> >>}

\* the same calls on an alpha_bear whose route lies out of sight of a player
\* at the far end of the grid, and in sight of a player in the middle
PatrolCallInit ==
    /\ grid \in PatrolGrids
    /\ \E home \in EnemyHomes, offsets \in PatrolCallDraws :
          enemy = NewEnemy(home[1], home[2], "alpha_bear", offsets)
    /\ \E c \in {<<EnemyWidth - 1, 0>>, <<4, 0>>} :
          player = [x |-> c[1], y |-> c[2]]
    /\ tick_pc = "off"
    /\ tick_dt = 0
    /\ before = <<>>
    /\ q_kind = "none"
    /\ q_start = NoPos
    /\ q_goal = NoPos
    /\ q_radius = 0
    /\ called = {}
    /\ path_result = <<>>
    /\ scan_result = <<>>
    /\ layers_result = <<>>
    /\ last_call = <<>>
    /\ calls = 0

PatrolCallStart == GenIdle /\ GameIdle /\ ShadowIdle /\ CombatIdle /\ PatrolCallInit

SpecPatrolCalls == PatrolCallStart /\ [][CallNext]_vars

-----------------------------------------------------------------------------
(* Reference notions the claims are stated with *)

Adjacent(a, b) == Heuristic(a, b) = 1

GenFloor == {c \in GenCells : ~map_grid[c]}

\* the floor cells of m reachable from the cells of S by 4-directional moves
\* over floor cells
RECURSIVE FloorReach(_, _)
FloorReach(S, m) ==
    LET T == S \cup {n \in GenCells : ~m[n] /\ \E c \in S : Adjacent(n, c)}
    IN  IF T = S THEN S ELSE FloorReach(T, m)

MutuallyReachable(S, m) ==
    \A a \in S : S \subseteq FloorReach({a}, m)

Infinity == 1000 * 1000

Least(S) == CHOOSE v \in S : \A w \in S : v <= w

\* Bellman-Ford rounds of a reference shortest-path computation: dist[c] is
\* the least cost found so far of a route from start to c that steps only onto
\* in-bounds tiles that are not walls, paying weight(c) for stepping onto c.
RECURSIVE RefRounds(_, _, _, _, _)
RefRounds(dist, k, start, g, weighted) ==
    IF k = 0 THEN dist
    ELSE LET cells == DOMAIN g.tiles
             weight(c) == IF weighted THEN g.tiles[c].cost ELSE 1
             via(c) == {dist[n] + weight(c) :
                          n \in SeqToSet(Neighbors(c)) \cap DOMAIN dist}
             next == [c \in DOMAIN dist |->
                        IF c = start \/ c \notin cells THEN dist[c]
                        ELSE IF g.tiles[c].type = "wall" THEN Infinity
                        ELSE Least({dist[c]} \cup via(c))]
         IN  IF next = dist THEN dist ELSE RefRounds(next, k - 1, start, g, weighted)

RefDist(start, g, weighted) ==
    RefRounds([c \in DOMAIN g.tiles \cup {start} |-> IF c = start THEN 0 ELSE Infinity],
              Cardinality(DOMAIN g.tiles) + 1, start, g, weighted)

\* least cost of a wall-free route from start to goal; Infinity when there is none
MinCost(start, goal, g) ==
    IF goal \notin DOMAIN g.tiles \cup {start} THEN Infinity
    ELSE LET d == RefDist(start, g, TRUE)[goal]
         IN  IF d >= Infinity THEN Infinity ELSE d

\* least number of steps of a wall-free route from start to goal
MinSteps(start, goal, g) ==
    IF goal \notin DOMAIN g.tiles \cup {start} THEN Infinity
    ELSE LET d == RefDist(start, g, FALSE)[goal]
         IN  IF d >= Infinity THEN Infinity ELSE d

RECURSIVE SumCost(_, _)
SumCost(path, g) ==
    IF path = <<>> THEN 0 ELSE g.tiles[Head(path)].cost + SumCost(Tail(path), g)

HasTrap(g) == \E c \in DOMAIN g.tiles : g.tiles[c].type = "trap"
HasWall(g) == \E c \in DOMAIN g.tiles : g.tiles[c].type = "wall"

AStarReturned == "a_star" \in called

-----------------------------------------------------------------------------
(* The claims *)

\* C1: in the grid generate returns, every floor cell is reachable from every
\* other floor cell by 4-directional moves over floor cells.
C1_FloorConnected ==
    gen_pc = "generated" => MutuallyReachable(GenFloor, map_grid)

\* C2: after generate returns, every coordinate of largest_region is a floor
\* cell of the returned grid, the coordinates are mutually reachable, and the
\* spawn and the exit that init_level picks from largest_region are floor cells
\* of that one region.
C2_RegionOnFloor ==
    /\ gen_pc \in {"generated", "level"} =>
          /\ \A p \in SeqToSet(largest_region) : ~map_grid[p]
          /\ MutuallyReachable(SeqToSet(largest_region), map_grid)
    /\ gen_pc = "level" /\ largest_region # <<>> =>
          /\ ~map_grid[spawn] /\ ~map_grid[exit_pos]
          /\ exit_pos \in FloorReach({spawn}, map_grid)

\* C3: a non-empty path returned by a_star costs (sum of tile.cost over its
\* cells) exactly the least cost of any wall-free 4-directional route from
\* start to goal; when every tile that is not a wall costs 1 its length is the
\* shortest-path distance.
C3_AStarOptimal ==
    AStarReturned /\ path_result # <<>> =>
        /\ SumCost(path_result, grid) = MinCost(q_start, q_goal, grid)
        /\ ~HasTrap(grid) => Len(path_result) = MinSteps(q_start, q_goal, grid)

\* C3 happens: A* has returned a route around a trap, longer than the
\* straight one and cheaper.
C3_Witness ==
    /\ AStarReturned /\ path_result # <<>>
    /\ HasTrap(grid) /\ ~HasWall(grid)
    /\ Len(path_result) > Heuristic(q_start, q_goal)
    /\ SumCost(path_result, grid) = Len(path_result)

\* C4: a_star returns the empty sequence exactly when the goal cannot be
\* reached from start over in-bounds tiles that are not walls, or start = goal.
C4_EmptyIffUnreachable ==
    AStarReturned =>
        ((path_result = <<>>) <=>
            (q_start = q_goal \/ MinSteps(q_start, q_goal, grid) = Infinity))

\* C4 happens: the start is walled in, the goal lies elsewhere, and a_star
\* has returned the empty sequence.
C4_Witness ==
    /\ AStarReturned /\ path_result = <<>>
    /\ q_goal \in PathCells /\ q_goal # q_start
    /\ grid.tiles[q_goal].type # "wall"
    /\ \A c \in PathCells : Adjacent(c, q_start) => grid.tiles[c].type = "wall"

\* C5: a non-empty path returned by a_star does not contain start, begins
\* next to start, moves between 4-adjacent cells, ends at goal, repeats no
\* cell, and all its cells are in bounds and not walls.
C5_PathWalkable ==
    AStarReturned /\ path_result # <<>> =>
        /\ \A i \in 1 .. Len(path_result) :
              /\ path_result[i] # q_start
              /\ InBounds(path_result[i], grid)
              /\ grid.tiles[path_result[i]].type # "wall"
              /\ \A j \in 1 .. Len(path_result) : i # j => path_result[i] # path_result[j]
        /\ Adjacent(path_result[1], q_start)
        /\ \A i \in 1 .. Len(path_result) - 1 : Adjacent(path_result[i], path_result[i + 1])
        /\ path_result[Len(path_result)] = q_goal

\* C5 happens: a_star has returned a path of several cells through a gap in
\* a wall.
C5_Witness ==
    /\ AStarReturned /\ Len(path_result) >= 3
    /\ HasWall(grid)
    /\ Len(path_result) > Heuristic(q_start, q_goal)

\* C6: bfs_scan_layered returns radius + 1 layers; layer d holds exactly the
\* in-bounds coordinates at Manhattan distance d from the origin, each once,
\* and no coordinate is in two layers.
C6_LayersExact ==
    "bfs_scan_layered" \in called =>
        /\ Len(layers_result) = q_radius + 1
        /\ \A d \in 0 .. q_radius :
              /\ SeqToSet(layers_result[d + 1]) =
                    {c \in PathCells : Heuristic(c, q_start) = d}
              /\ \A i, j \in 1 .. Len(layers_result[d + 1]) :
                    i # j => layers_result[d + 1][i] # layers_result[d + 1][j]
        /\ \A d, e \in 0 .. q_radius :
              d # e => SeqToSet(layers_result[d + 1]) \cap SeqToSet(layers_result[e + 1]) = {}

\* C6 happens: a layered scan over a grid with walls has returned, its last
\* layer is not empty and some cell of the grid lies beyond the radius.
C6_Witness ==
    /\ "bfs_scan_layered" \in called
    /\ q_radius >= 2
    /\ HasWall(grid)
    /\ layers_result[q_radius + 1] # <<>>
    /\ \E c \in PathCells : Heuristic(c, q_start) > q_radius

\* C7: for the same origin, grid and radius, the coordinates bfs_scan returns
\* are the union of the layers bfs_scan_layered returns.
C7_ScanEqualsLayers ==
    {"bfs_scan", "bfs_scan_layered"} \subseteq called =>
        SeqToSet(scan_result) =
            UNION {SeqToSet(layers_result[d]) : d \in 1 .. Len(layers_result)}

\* C7 happens: both scans have returned for a radius that leaves part of the
\* grid unrevealed.
C7_Witness ==
    /\ {"bfs_scan", "bfs_scan_layered"} \subseteq called
    /\ q_radius >= 1
    /\ SeqToSet(scan_result) # PathCells
    /\ Len(scan_result) > 1

\* the enemy's and the player's cells, and the Manhattan distance between them
EnemyPos == <<enemy.x, enemy.y>>
PlayerPos == <<player.x, player.y>>
PlayerDist == Abs(enemy.x - player.x) + Abs(enemy.y - player.y)

JustUpdated == tick_pc = "updated" /\ enemy.health > 0

\* C8: after Enemy.update on a living enemy the state is HUNTING exactly when
\* the Manhattan distance to the player is below detection_range; an enemy
\* that was HUNTING and finds the player out of range is on PATROL, and the
\* path it holds is empty or the A* path to its active patrol point, never
\* what was left of the hunt.
C8_HuntingIffInRange ==
    JustUpdated =>
        /\ (enemy.state = "HUNTING") <=> (PlayerDist < enemy.detection_range)
        /\ before.state = "HUNTING" /\ PlayerDist >= enemy.detection_range =>
              /\ enemy.state = "PATROL"
              /\ \/ enemy.path = <<>>
                 \/ enemy.path =
                        AStar(EnemyPos,
                              enemy.patrol_points[enemy.current_patrol_index + 1], grid)

\* C8 happens: an enemy that was hunting along a path has been updated with
\* the player exactly detection_range away, and is on patrol with a path
\* that is not the rest of the hunt.
C8_Witness ==
    /\ JustUpdated
    /\ before.state = "HUNTING" /\ before.path # <<>>
    /\ PlayerDist = enemy.detection_range
    /\ enemy.state = "PATROL"
    /\ enemy.path # <<>> /\ enemy.path # before.path

\* C9: after Enemy.update with the player within detection range the path is
\* the A* result from the enemy's cell to the player's cell on the current
\* grid, whatever path was held before; it is not empty and ends at the
\* player's cell when that cell can be reached and is not the enemy's own.
C9_HuntPathFresh ==
    JustUpdated /\ PlayerDist < enemy.detection_range =>
        /\ enemy.path = AStar(EnemyPos, PlayerPos, grid)
        /\ EnemyPos # PlayerPos /\ MinSteps(EnemyPos, PlayerPos, grid) < Infinity =>
              /\ enemy.path # <<>>
              /\ enemy.path[Len(enemy.path)] = PlayerPos

\* C9 happens: a hunting enemy held a path, the player has moved, and the
\* update has replaced the path by one that ends at the player's new cell and
\* is not a piece of the old one.
C9_Witness ==
    /\ JustUpdated /\ PlayerDist < enemy.detection_range
    /\ before.state = "HUNTING" /\ before.path # <<>>
    /\ enemy.path # <<>> /\ enemy.path[Len(enemy.path)] = PlayerPos
    /\ before.path[Len(before.path)] # PlayerPos
    /\ HasWall(grid)

\* C10: while frozen_timer > 0 no step moves the enemy, and move_step only
\* lowers frozen_timer: position, move_timer, patrol_wait_timer, slow_timer
\* and path stay as they are.
C10_FrozenStays ==
    [][enemy.frozen_timer > 0 =>
          /\ enemy'.x = enemy.x /\ enemy'.y = enemy.y
          /\ tick_pc = "updated" /\ tick_pc' = "moved" =>
                /\ enemy'.frozen_timer < enemy.frozen_timer
                /\ enemy' = [enemy EXCEPT !.frozen_timer = enemy'.frozen_timer]]_vars

\* C10 happens: a frozen enemy that hunts the player and holds a path has
\* been through move_step several times and is still frozen.
C10_Witness ==
    /\ tick_pc = "moved"
    /\ enemy.frozen_timer > 0
    /\ enemy.frozen_timer <= TrapEffect("trap_bind").duration - 3 * tick_dt
    /\ enemy.state = "HUNTING"
    /\ enemy.path # <<>>

-----------------------------------------------------------------------------
(* Claims about single calls on an Enemy object *)

Applied(effect_type) ==
    /\ last_call # <<>>
    /\ last_call.op = "apply_effect"
    /\ last_call.effect_type = effect_type

Stepped == last_call # <<>> /\ last_call.op = "move_step"

\* C11 as the specification words it: applying freeze leaves the path as it
\* was.
C11_FreezeKeepsPath ==
    Applied("freeze") => enemy.path = last_call.pre.path

\* C11: applying freeze sets frozen_timer to the duration and empties the
\* path, and changes nothing else; the enemy comes out of the freeze without
\* the path it held and waits for an update to give it a new one.
C11_FreezeClearsPath ==
    Applied("freeze") =>
        enemy = [last_call.pre EXCEPT !.frozen_timer = last_call.duration,
                                      !.path = <<>>]

\* C11 happens: an enemy that held a path of several cells has been frozen.
C11_Witness ==
    /\ Applied("freeze")
    /\ Len(last_call.pre.path) >= 2
    /\ last_call.pre.frozen_timer <= 0

\* number of move_step calls with the same dt until e takes its next step
\* (at most 2 * speed calls are looked at)
RECURSIVE TicksToStep(_, _, _)
TicksToStep(e, dt, n) ==
    IF n >= 2 * e.speed THEN n
    ELSE LET e1 == EnemyMoved(e, dt)
         IN  IF Len(e1.path) < Len(e.path) THEN n + 1
             ELSE TicksToStep(e1, dt, n + 1)

\* an enemy about to start on a step: it has a path, its move timer is 0 and
\* no effect is on it
ReadyToStep ==
    /\ enemy # <<>>
    /\ enemy.path # <<>>
    /\ enemy.move_timer = 0
    /\ enemy.frozen_timer <= 0
    /\ enemy.slow_timer <= 0

Slowed(e) ==
    [e EXCEPT !.slow_timer = TrapEffect("trap_gravity").duration,
              !.slow_factor_halves = 1]

\* what apply_effect('slow') and a slowed move_step do to the enemy
SlowBasics ==
    /\ Applied("slow") =>
          enemy = [last_call.pre EXCEPT !.slow_timer = last_call.duration,
                                        !.slow_factor_halves = 1]
    /\ Stepped /\ last_call.pre.frozen_timer <= 0 /\ last_call.pre.slow_timer > 0 =>
          LET pre == last_call.pre
              timer == pre.move_timer + last_call.dt \div 2
          IN  /\ 2 * (last_call.dt \div 2) = last_call.dt
              /\ enemy.move_timer =
                    IF timer >= pre.speed /\ pre.path # <<>> THEN 0 ELSE timer

C13_EffectsOverwrite ==
    /\ Applied("freeze") => enemy.frozen_timer = last_call.duration
    /\ Applied("slow") =>
          /\ enemy.slow_timer = last_call.duration
          /\ enemy.slow_factor_halves = 1

\* C13 happens: freeze has been applied to an enemy that was still frozen,
\* with a different time left, and that had been slowed more than once.
C13_Witness ==
    /\ Applied("freeze")
    /\ last_call.pre.frozen_timer > 0
    /\ last_call.pre.frozen_timer # last_call.duration
    /\ last_call.pre.slow_timer > 0
    /\ last_call.pre.slow_timer # TrapEffect("trap_gravity").duration

\* C15: a move_step call changes the position only if the move timer plus
\* the dt that counts has reached the move interval and the path is not
\* empty; the entity is then on the former first cell of the path, that cell
\* is gone from the path and nothing else is, and the move timer is 0.
C15_OneStepPerCall ==
    Stepped =>
        LET pre == last_call.pre
            current_dt == IF pre.slow_timer > 0
                          THEN (last_call.dt * pre.slow_factor_halves) \div 2
                          ELSE last_call.dt
        IN  IF <<enemy.x, enemy.y>> # <<pre.x, pre.y>> \/ enemy.path # pre.path
            THEN /\ pre.frozen_timer <= 0
                 /\ pre.path # <<>>
                 /\ pre.move_timer + current_dt >= pre.speed
                 /\ <<enemy.x, enemy.y>> = Head(pre.path)
                 /\ enemy.path = Tail(pre.path)
                 /\ enemy.move_timer = 0
            ELSE pre.frozen_timer > 0 \/ pre.path = <<>>
                 \/ pre.move_timer + current_dt < pre.speed

\* C15 happens: a move_step with a dt of more than two move intervals has
\* taken one step along a path of several cells.
C15_Witness ==
    /\ Stepped
    /\ last_call.dt >= 2 * enemy.speed
    /\ Len(last_call.pre.path) >= 2
    /\ Len(enemy.path) = Len(last_call.pre.path) - 1
    /\ <<enemy.x, enemy.y>> = Head(last_call.pre.path)

-----------------------------------------------------------------------------
(* Claims about the constructor *)

Constructed == enemy # <<>> /\ last_call # <<>> /\ last_call.op = "__init__"

\* C17: right after construction, before any update, the enemy's state is
\* PATROL.
C17_InitialPatrol ==
    Constructed => enemy.state = "PATROL"

RouteBasics ==
    LET route == enemy.patrol_points
        home == last_call.home
    IN  /\ Len(route) >= 1
        /\ route[1] = home
        /\ \A i, j \in 1 .. Len(route) : i # j => route[i] # route[j]
        /\ \A i \in 2 .. Len(route) :
              /\ Abs(route[i][1] - home[1]) <= MaxOffset
              /\ Abs(route[i][2] - home[2]) <= MaxOffset

-----------------------------------------------------------------------------
(* Claims about the enemy in play *)

\* C16: in every state the enemy's path does not contain the cell the enemy
\* is on.
C16_PathAvoidsSelf ==
    enemy # <<>> => <<enemy.x, enemy.y>> \notin SeqToSet(enemy.path)

\* C16 happens: the enemy has just taken a step away from home along a path
\* and still has two or more cells of it to go.
C16_Witness ==
    /\ tick_pc = "moved"
    /\ enemy.move_timer = 0
    /\ Len(enemy.path) >= 2
    /\ <<enemy.x, enemy.y>> # enemy.patrol_points[1]

Landed == player'.health < player.health

\* C14: the player's health goes down in a tick only when the enemy, at that
\* point of the tick, is alive, not frozen, at Manhattan distance at most 1
\* from the player and with its attack cooldown run out; the attack sets the
\* cooldown to AttackCooldown, and it is the first to land or at least
\* AttackCooldown of tick time after the one before.
C14_AttackOnlyWhenAllowed ==
    [][Landed =>
          /\ enemy.health > 0
          /\ enemy.frozen_timer <= 0
          /\ PlayerDist <= 1
          /\ enemy.attack_cooldown <= 0
          /\ enemy'.attack_cooldown = AttackCooldown
          /\ (since_attack < 0 \/ since_attack + tick_dt >= AttackCooldown)]_vars

\* C14 happens: a fresh player has just taken the second attack of the enemy.
C14_Witness ==
    /\ tick_pc = "moved"
    /\ since_attack = 0
    /\ enemy.attack_cooldown = AttackCooldown
    /\ player.health = PlayerHealth - 2 * DamageOf(enemy.enemy_type)

\* the longest route _generate_patrol_route builds: the home and three draws
MaxPoints == 4

NeverDetected == enemy.state # "HUNTING" /\ PlayerDist >= enemy.detection_range

OnPoint(i) == i <= Len(enemy.patrol_points) /\ EnemyPos = enemy.patrol_points[i]

IndexMoves == enemy'.current_patrol_index # enemy.current_patrol_index

\* C19: the patrol index moves only from the point the enemy stands on to the
\* next one, cyclically, and an enemy that never detects the player is on
\* each of its patrol points again and again, forever.
C19_PatrolCycles ==
    /\ [][IndexMoves =>
             /\ OnPoint(enemy.current_patrol_index + 1)
             /\ enemy'.current_patrol_index =
                   (enemy.current_patrol_index + 1) % Len(enemy.patrol_points)]_vars
    /\ []NeverDetected =>
          \A i \in 1 .. MaxPoints :
              []<>(i > Len(enemy.patrol_points) \/ OnPoint(i))

\* C19 happens: an enemy with a route of three points is back on its home
\* after the round, still undetected and on patrol, about to start the next.
C19_Witness ==
    /\ Len(enemy.patrol_points) = 3
    /\ enemy.state = "PATROL"
    /\ enemy.current_patrol_index = 0
    /\ OnPoint(1)
    /\ enemy.patrol_wait_timer > 0
    /\ PlayerDist >= enemy.detection_range

-----------------------------------------------------------------------------
(* Claims about the shadow *)

ShadowUpdateDone == last_call # <<>> /\ last_call.op = "Shadow.update"

\* the living enemies nearest to the shadow as the call found them
NearestBefore ==
    LET s == last_call.pre
        es == last_call.enemies
        alive == {i \in DOMAIN es : es[i].health > 0}
    IN  {i \in alive : \A j \in alive : DistTo(s, es[i]) <= DistTo(s, es[j])}

\* the call found the shadow alive and in ATTACK, a living enemy nearest at
\* distance 0 or 1, and the cooldown run out by this call's dt
InReach ==
    /\ ShadowUpdateDone
    /\ last_call.pre.state = "ATTACK"
    /\ last_call.pre.health > 0
    /\ last_call.pre.combat_cooldown - last_call.dt <= 0
    /\ \E i \in NearestBefore : DistTo(last_call.pre, last_call.enemies[i]) <= 1

\* C20: a Shadow.update that finds the shadow in ATTACK with the nearest living
\* enemy at Manhattan distance 0 or 1 and the combat cooldown run out takes
\* health off that enemy, sets the cooldown to CombatCooldown and leaves the
\* shadow where it was.
C20_AttacksInReach ==
    InReach =>
        /\ \E i \in NearestBefore : enemies[i].health < last_call.enemies[i].health
        /\ shadow.combat_cooldown = CombatCooldown
        /\ shadow.x = last_call.pre.x
        /\ shadow.y = last_call.pre.y

\* C21: after every Shadow.update the shadow's target_enemy is None or an
\* enemy that is alive.
C21_TargetAlive ==
    ShadowUpdateDone =>
        \/ shadow.target_enemy = 0
        \/ enemies[shadow.target_enemy].health > 0

UpdateStep == last_call'.op = "Shadow.update"

NoneAlive == \A i \in DOMAIN enemies : enemies[i].health <= 0

\* C22: the state goes from IDLE to ATTACK only in _toggle_shadow_attack; a
\* Shadow.update changes the state exactly when it finds the shadow alive and
\* in ATTACK with no living enemy in the list, and then the state is IDLE,
\* the path empty and the target None.
C22_StateChanges ==
    [][/\ (shadow.state = "IDLE" /\ shadow'.state = "ATTACK")
              => last_call'.op = "_toggle_shadow_attack"
       /\ UpdateStep =>
              /\ shadow'.state # shadow.state
                    <=> (shadow.state = "ATTACK" /\ shadow.health > 0 /\ NoneAlive)
              /\ shadow'.state # shadow.state =>
                    /\ shadow'.state = "IDLE"
                    /\ shadow'.path = <<>>
                    /\ shadow'.target_enemy = 0]_vars

\* C22 happens: an update has found a shadow in ATTACK that held a target, with
\* every enemy dead, and left it IDLE.
C22_Witness ==
    /\ ShadowUpdateDone
    /\ last_call.pre.state = "ATTACK"
    /\ last_call.pre.target_enemy # 0
    /\ \A i \in DOMAIN last_call.enemies : last_call.enemies[i].health <= 0
    /\ shadow.state = "IDLE"
    /\ shadow.target_enemy = 0

-----------------------------------------------------------------------------
(* Claims about the generator *)

OnBorder(c) ==
    c[1] = 0 \/ c[1] = GenWidth - 1 \/ c[2] = 0 \/ c[2] = GenHeight - 1

\* C23: in the grid generate returns every border cell is a wall.
C23_BorderWalls ==
    gen_pc \in {"generated", "level", "raised"} =>
        \A c \in GenCells : OnBorder(c) => map_grid[c]

\* C23 happens: generate has returned a grid that was smoothed, holds pillars
\* and has floor right next to the border.
C23_Witness ==
    /\ gen_pc = "generated"
    /\ rounds >= 1
    /\ placed >= 1
    /\ \E c \in GenCells : c[1] = 1 /\ ~map_grid[c]

\* the walls among the 8 neighbours of c in m, a neighbour outside the map
\* counting as a wall
WallsAround(c, m) ==
    Cardinality({d \in {-1, 0, 1} \X {-1, 0, 1} :
        /\ d # <<0, 0>>
        /\ LET n == <<c[1] + d[1], c[2] + d[2]>>
           IN  n \notin GenCells \/ m[n]})

\* C28: a smoothing round gives every cell the value the grid of the round
\* before fixes for it: wall with more than 4 walls around it, floor with
\* fewer than 4, unchanged with exactly 4.
C28_DoubleBuffered ==
    [][rounds' = rounds + 1 =>
          \A c \in GenCells :
              map_grid'[c] = IF WallsAround(c, map_grid) > 4 THEN TRUE
                             ELSE IF WallsAround(c, map_grid) < 4 THEN FALSE
                             ELSE map_grid[c]]_vars

\* C28 happens: a round has run and left both walls and floor in the interior.
C28_Witness ==
    /\ gen_pc = "smooth"
    /\ rounds = 1
    /\ \E c \in GenCells : ~OnBorder(c) /\ map_grid[c]
    /\ \E c \in GenCells : ~OnBorder(c) /\ ~map_grid[c]

\* C29: after _connect_caves a cell is floor exactly when it is in
\* largest_region, largest_region is one 4-connected floor region of the
\* smoothed grid, listed without repetition, and no floor region of the
\* smoothed grid has more cells.
C29_KeepsLargest ==
    [][gen_pc = "smooth" /\ gen_pc' = "pillars" =>
          LET R == SeqToSet(largest_region')
          IN  /\ \A c \in GenCells : ~map_grid'[c] <=> c \in R
              /\ Len(largest_region') = Cardinality(R)
              /\ \A c \in R : ~map_grid[c] /\ FloorReach({c}, map_grid) = R
              /\ \A c \in GenFloor :
                    Cardinality(FloorReach({c}, map_grid)) <= Cardinality(R)]_vars

\* C29 happens: the unsmoothed interior was cut by the wall column x = 2; the
\* three columns right of it were kept and the column left of it was filled.
C29_Witness ==
    /\ gen_pc = "pillars"
    /\ attempts = 0
    /\ rounds = 0
    /\ Len(largest_region) = (GenWidth - 4) * (GenHeight - 2)
    /\ \A c \in GenCells : c[1] <= 2 => map_grid[c]

\* C30: _add_pillars makes at most MaxAttempts attempts and places at most
\* PillarCount pillars; an attempt counts itself, turns no wall into floor and
\* leaves the border as it is; and the loop ends: generate returns.
C30_PillarsBounded ==
    /\ [](attempts <= MaxAttempts /\ placed <= PillarCount)
    /\ [][gen_pc = "pillars" /\ gen_pc' = "pillars" =>
             /\ attempts' = attempts + 1
             /\ placed' \in {placed, placed + 1}
             /\ \A c \in GenCells : map_grid[c] => map_grid'[c]
             /\ \A c \in GenCells : OnBorder(c) => map_grid'[c] = map_grid[c]]_vars
    /\ (gen_pc = "pillars") ~> (gen_pc = "generated")

\* C30 happens: with no floor cell anywhere the loop has used up its attempts
\* without placing a pillar, and generate has returned.
C30_Witness ==
    /\ gen_pc = "generated"
    /\ attempts = MaxAttempts
    /\ placed = 0
    /\ GenFloor = {}

\* C24: when no floor region is left, generate returns with an empty
\* largest_region, and init_level, once it is past generate, has put the
\* player on the default spawn (2, 2) and has run to its end.
C24_DefaultSpawn ==
    /\ gen_pc = "pillars" /\ attempts = 0 /\ GenFloor = {} => largest_region = <<>>
    /\ gen_pc \notin {"seed", "smooth", "pillars", "generated"} /\ largest_region = <<>> =>
          /\ gen_pc = "level"
          /\ spawn = <<2, 2>>

-----------------------------------------------------------------------------
(* Claims about the patrol *)

\* the last call was an update that ran _update_patrol: the enemy was alive
\* and the player out of its detection range
Patrolled ==
    /\ last_call # <<>>
    /\ last_call.op = "update"
    /\ last_call.pre.health > 0
    /\ Abs(last_call.pre.x - player.x) + Abs(last_call.pre.y - player.y)
          >= last_call.pre.detection_range

\* the enemy stood on its active patrol point when the last call was made
WasOnPoint ==
    <<last_call.pre.x, last_call.pre.y>>
        = last_call.pre.patrol_points[last_call.pre.current_patrol_index + 1]

\* C25: current_patrol_index is always an index of patrol_points; a patrol
\* update of an enemy that stands on its active point with a wait timer that
\* is not positive makes it (index + 1) mod len and sets the wait timer to the
\* dwell duration; every other call leaves the index as it was.
C25_IndexValid ==
    /\ enemy.current_patrol_index \in 0 .. Len(enemy.patrol_points) - 1
    /\ last_call # <<>> =>
          IF Patrolled /\ WasOnPoint /\ last_call.pre.patrol_wait_timer <= 0
          THEN /\ enemy.current_patrol_index =
                     (last_call.pre.current_patrol_index + 1) % Len(enemy.patrol_points)
               /\ enemy.patrol_wait_timer = PatrolWaitDuration
          ELSE enemy.current_patrol_index = last_call.pre.current_patrol_index

\* C25 happens: a patrol update has taken the index from the last point of a
\* route of several points back to 0.
C25_Witness ==
    /\ Patrolled
    /\ WasOnPoint
    /\ last_call.pre.patrol_wait_timer < 0
    /\ last_call.pre.current_patrol_index = Len(enemy.patrol_points) - 1
    /\ last_call.pre.current_patrol_index >= 1
    /\ enemy.current_patrol_index = 0

\* C26: an enemy that has arrived at its active patrol point leaves it, the
\* patrol index moving on, only after the dwell duration of movement time on
\* that point (move_timer is 0 on arrival and counts the movement time since).
C26_FullDwell ==
    [][IndexMoves /\ enemy.state = "PATROL" =>
          enemy.move_timer >= PatrolWaitDuration]_vars

\* the point the path request of the last patrol update was for
ActivePoint == enemy.patrol_points[enemy.current_patrol_index + 1]

\* C27: a patrol update of an enemy without a path whose active patrol point
\* is out of bounds or a wall leaves the path empty and the enemy where it
\* was.
C27_InvalidTargetSkipped ==
    /\ Patrolled
    /\ last_call.pre.path = <<>>
    /\ ~InBounds(ActivePoint, grid) \/ GetTile(grid, ActivePoint).type = "wall"
    => /\ enemy.path = <<>>
       /\ EnemyPos = <<last_call.pre.x, last_call.pre.y>>
       /\ enemy.state = "PATROL"

\* C27 happens: patrol updates with a point outside the grid as the active
\* point, and with a wall tile as the active point.
C27_Witness ==
    /\ Patrolled
    /\ last_call.pre.path = <<>>
    /\ ~InBounds(ActivePoint, grid)
    /\ enemy.path = <<>>

C27_WitnessWall ==
    /\ Patrolled
    /\ last_call.pre.path = <<>>
    /\ InBounds(ActivePoint, grid)
    /\ GetTile(grid, ActivePoint).type = "wall"
    /\ enemy.path = <<>>

Awake(state) == state \in {"PATROL", "HUNTING"}

\* C38: the patrol route is never empty (the home is its first point); an
\* update of a living enemy leaves it in PATROL or HUNTING, and no later call
\* takes it out of these two states: IDLE is the state before the first
\* update only.
C38_NeverIdle ==
    /\ [](enemy.patrol_points # <<>>)
    /\ [][last_call'.op = "update" /\ enemy.health > 0 => Awake(enemy'.state)]_vars
    /\ [][Awake(enemy.state) => Awake(enemy'.state)]_vars

\* C38 happens: the first update of an enemy whose route is its home alone has
\* run with the player out of sight, and has put the enemy on patrol.
C38_Witness ==
    /\ Patrolled
    /\ last_call.pre.state = "IDLE"
    /\ Len(enemy.patrol_points) = 1
    /\ enemy.state = "PATROL"

-----------------------------------------------------------------------------
(* The player's resources: the keys of PlayingState.handle_event with the   *)
(* two menus, the pickup of Player.update and the drops of the enemies.     *)
(* An enemy is here its type and its health, a shadow its type, its place   *)
(* and its cost; every tile is visible.                                     *)

MaxEconomyCalls == 6   \* longest sequence of keys and updates

\* list(SHADOW_TYPES.keys())
ShadowOptions == <<"shadow", "igris", "beru">>

\* list(TRAP_TYPES.keys())
TrapOptions == <<"trap_bind", "trap_spike", "trap_gravity">>

\* SHADOW_TYPES[shadow_type]['cost']
ShadowTypeCost(shadow_type) ==
    CASE shadow_type = "shadow" -> 10
      [] shadow_type = "igris" -> 25
      [] shadow_type = "beru" -> 20

\* SHADOW_CONFIGS[shadow_type].cost
ShadowConfigCost(shadow_type) ==
    CASE shadow_type = "shadow" -> 15
      [] shadow_type = "igris" -> 40
      [] shadow_type = "beru" -> 50

\* TRAP_TYPES[trap_type]['cost']
TrapTypeCost(trap_type) ==
    CASE trap_type = "trap_bind" -> 15
      [] trap_type = "trap_spike" -> 10
      [] trap_type = "trap_gravity" -> 20

\* resource_drops.get(enemy.enemy_type, 10)
DropAmount(enemy_type) ==
    CASE enemy_type = "security_agent" -> 10
      [] enemy_type = "elf" -> 20
      [] enemy_type = "alpha_bear" -> 12
      [] OTHER -> 10

\* Player.update: self.resources += 10
PickupAmount == 10

\* Shadow.__init__: self.cost = config.cost
SummonedShadow(x, y, shadow_type) ==
    [x |-> x, y |-> y, shadow_type |-> shadow_type,
     cost |-> ShadowConfigCost(shadow_type)]

\* ShadowMenu.open, TrapMenu.open
OpenMenu == [active |-> TRUE, selected_index |-> 0]

\* ShadowMenu.close, TrapMenu.close
CloseMenu(menu) == [menu EXCEPT !.active = FALSE]

\* the selection keys of both menus (indices from 0, as in the source)
MenuSelect(menu, key) ==
    IF key \in {"LEFT", "UP"}
    THEN [menu EXCEPT !.selected_index = (menu.selected_index - 1) % 3]
    ELSE [menu EXCEPT !.selected_index = (menu.selected_index + 1) % 3]

\* ShadowMenu.handle_input in an active menu: the menu, the player and the
\* shadows after the key
ShadowMenuInput(key, menu, p, shadows) ==
    IF key \in {"LEFT", "UP", "RIGHT", "DOWN"}
    THEN [menu |-> MenuSelect(menu, key), player |-> p, shadows |-> shadows]
    ELSE IF key = "RETURN"
    THEN LET selected_type == ShadowOptions[menu.selected_index + 1]
         IN  IF p.resources >= ShadowTypeCost(selected_type)
             THEN [menu |-> CloseMenu(menu),
                   player |-> [p EXCEPT !.resources =
                                  p.resources - ShadowTypeCost(selected_type)],
                   shadows |-> Append(shadows, SummonedShadow(p.x, p.y, selected_type))]
             ELSE [menu |-> CloseMenu(menu), player |-> p, shadows |-> shadows]
    ELSE IF key = "ESCAPE"
    THEN [menu |-> CloseMenu(menu), player |-> p, shadows |-> shadows]
    ELSE [menu |-> menu, player |-> p, shadows |-> shadows]

\* PlayingState._build_trap: whether it built, and the grid after the call
BuildTrap(p, g, trap_type) ==
    LET here == <<p.x, p.y>>
    IN  IF g.tiles[here].type = "floor"
        THEN [success |-> TRUE,
              grid |-> [g EXCEPT !.tiles[here] = BuiltTrap(trap_type)]]
        ELSE [success |-> FALSE, grid |-> g]

\* TrapMenu.select_trap with on_build_callback = _build_trap
SelectTrap(menu, p, g) ==
    LET selected_type == TrapOptions[menu.selected_index + 1]
    IN  IF p.resources >= TrapTypeCost(selected_type)
        THEN LET built == BuildTrap(p, g, selected_type)
             IN  IF built.success
                 THEN [menu |-> CloseMenu(menu),
                       player |-> [p EXCEPT !.resources =
                                      p.resources - TrapTypeCost(selected_type)],
                       grid |-> built.grid]
                 ELSE [menu |-> menu, player |-> p, grid |-> g]
        ELSE [menu |-> menu, player |-> p, grid |-> g]

\* TrapMenu.handle_input in an active menu
TrapMenuInput(key, menu, p, g) ==
    IF key \in {"LEFT", "UP", "RIGHT", "DOWN"}
    THEN [menu |-> MenuSelect(menu, key), player |-> p, grid |-> g]
    ELSE IF key = "RETURN" THEN SelectTrap(menu, p, g)
    ELSE IF key = "ESCAPE" THEN [menu |-> CloseMenu(menu), player |-> p, grid |-> g]
    ELSE [menu |-> menu, player |-> p, grid |-> g]

\* Player.move(dx, dy, grid)
PlayerMoved(p, dx, dy, g) ==
    LET new == <<p.x + dx, p.y + dy>>
    IN  IF /\ InBounds(new, g)
           /\ g.tiles[new].type # "wall"
           /\ ~p.moving
        THEN [p EXCEPT !.moving = TRUE, !.move_target = new]
        ELSE p

\* PlayingState._dismiss_shadow
DismissShadow(p, shadows) ==
    IF shadows # <<>>
    THEN [player |-> [p EXCEPT !.resources =
                         p.resources + shadows[Len(shadows)].cost],
          shadows |-> SubSeq(shadows, 1, Len(shadows) - 1)]
    ELSE [player |-> p, shadows |-> shadows]

\* Player.update: the move ends (arrives) or goes on; on arrival a resource
\* tile is picked up
PlayerUpdated(p, g, arrives) ==
    IF p.moving /\ arrives
    THEN LET p1 == [p EXCEPT !.x = p.move_target[1], !.y = p.move_target[2],
                             !.moving = FALSE]
         IN  IF g.tiles[p.move_target].type = "resource"
             THEN [player |-> [p1 EXCEPT !.resources = p1.resources + PickupAmount],
                   grid |-> [g EXCEPT !.tiles[p.move_target].type = "floor"]]
             ELSE [player |-> p1, grid |-> g]
    ELSE [player |-> p, grid |-> g]

\* PlayingState.update: the drops of the dead enemies, summed over the list
RECURSIVE DropsOf(_)
DropsOf(es) ==
    IF es = <<>> THEN 0
    ELSE (IF IsDead(Head(es)) THEN DropAmount(Head(es).enemy_type) ELSE 0)
            + DropsOf(Tail(es))

EconomyCells == (0 .. 2) \X {0}

\* a resource node next to the player's start, and beyond it a floor tile,
\* the exit or a wall
EconomyGrids ==
    {[width |-> 3, height |-> 1,
      tiles |-> [c \in EconomyCells |->
                    IF c = <<1, 0>> THEN PlainTile("resource", 1)
                    ELSE IF c = <<2, 0>> THEN PlainTile(far, IF far = "wall" THEN 999 ELSE 1)
                    ELSE PlainTile("floor", 1)]] :
        far \in {"floor", "exit", "wall"}}

\* the enemies of the level: alive, or killed in the second half of the tick
\* before (by a trap or a shadow)
EconomyFoes ==
    {<<>>,
     <<[NewEnemy(2, 0, "elf", <<>>) EXCEPT !.health = 0]>>,
     <<NewEnemy(2, 0, "security_agent", <<>>),
       [NewEnemy(2, 0, "alpha_bear", <<>>) EXCEPT !.health = 0]>>}

\* start_resources of the five levels is 15, 12, 10, 8, 5; 25 is what a
\* pickup makes of 15
EconomyResources == {5, 15, 25}

EconomyKeys == {"ESCAPE", "RETURN", "LEFT", "RIGHT", "b", "t", "r", "u"}

EconomyInit ==
    /\ grid \in EconomyGrids
    /\ \E resources \in EconomyResources :
          player = [x |-> 0, y |-> 0, resources |-> resources,
                    moving |-> FALSE, move_target |-> <<0, 0>>]
    /\ enemies \in EconomyFoes
    /\ engine = [state |-> "PLAYING", shadows |-> <<>>]
    /\ menus = [shadow_menu |-> [active |-> FALSE, selected_index |-> 0],
                trap_menu |-> [active |-> FALSE, selected_index |-> 0]]
    /\ hist = <<>>
    /\ last_call = <<>>
    /\ calls = 0
    /\ shadow = <<>>
    /\ renderer = <<>>
    /\ enemy = <<>>
    /\ tick_pc = "off"
    /\ tick_dt = 0
    /\ before = <<>>
    /\ q_kind = "none"
    /\ q_start = NoPos
    /\ q_goal = NoPos
    /\ q_radius = 0
    /\ called = {}
    /\ path_result = <<>>
    /\ scan_result = <<>>
    /\ layers_result = <<>>

EconomyFrame ==
    UNCHANGED <<shadow, renderer, enemy, tick_pc, tick_dt, before, genVars,
                combatVars, q_kind, q_start, q_goal, q_radius, called,
                path_result, scan_result, layers_result>>

\* PlayingState.handle_event on a KEYDOWN event. hist keeps, shadow by
\* shadow, what the player paid for it.
KeyDown ==
    /\ engine.state = "PLAYING"
    /\ calls < MaxEconomyCalls
    /\ \E key \in EconomyKeys :
          /\ last_call' = [op |-> "handle_event", key |-> key, pre |-> player,
                           tile |-> grid.tiles[<<player.x, player.y>>],
                           menus |-> menus, shadows |-> engine.shadows]
          /\ IF menus.shadow_menu.active
             THEN LET r == ShadowMenuInput(key, menus.shadow_menu, player, engine.shadows)
                  IN  /\ menus' = [menus EXCEPT !.shadow_menu = r.menu]
                      /\ player' = r.player
                      /\ engine' = [engine EXCEPT !.shadows = r.shadows]
                      /\ hist' = IF Len(r.shadows) > Len(engine.shadows)
                                 THEN Append(hist, player.resources - r.player.resources)
                                 ELSE hist
                      /\ UNCHANGED grid
             ELSE IF menus.trap_menu.active
             THEN LET r == TrapMenuInput(key, menus.trap_menu, player, grid)
                  IN  /\ menus' = [menus EXCEPT !.trap_menu = r.menu]
                      /\ player' = r.player
                      /\ grid' = r.grid
                      /\ UNCHANGED <<engine, hist>>
             ELSE CASE key = "ESCAPE" ->
                         /\ engine' = [engine EXCEPT !.state = "PAUSED"]
                         /\ UNCHANGED <<player, grid, menus, hist>>
                    [] key \in {"LEFT", "RIGHT"} ->
                         /\ player' = PlayerMoved(player, IF key = "LEFT" THEN -1 ELSE 1,
                                                 0, grid)
                         /\ UNCHANGED <<grid, engine, menus, hist>>
                    [] key = "b" ->
                         LET r == BuildWallAction(player, grid)
                         IN  /\ player' = r.player
                             /\ grid' = r.grid
                             /\ UNCHANGED <<engine, menus, hist>>
                    [] key = "t" ->
                         /\ menus' = [menus EXCEPT !.trap_menu = OpenMenu]
                         /\ UNCHANGED <<player, grid, engine, hist>>
                    [] key = "r" ->
                         /\ menus' = [menus EXCEPT !.shadow_menu = OpenMenu]
                         /\ UNCHANGED <<player, grid, engine, hist>>
                    [] key = "u" ->
                         LET r == DismissShadow(player, engine.shadows)
                         IN  /\ player' = r.player
                             /\ engine' = [engine EXCEPT !.shadows = r.shadows]
                             /\ hist' = IF hist # <<>>
                                        THEN SubSeq(hist, 1, Len(hist) - 1) ELSE hist
                             /\ UNCHANGED <<grid, menus>>
                    [] OTHER -> UNCHANGED <<player, grid, engine, menus, hist>>
    /\ calls' = calls + 1
    /\ UNCHANGED enemies
    /\ EconomyFrame

\* PlayingState.update, as far as the resources go: Player.update, the drops
\* of the dead enemies, and their removal
EconomyUpdate ==
    /\ engine.state = "PLAYING"
    /\ calls < MaxEconomyCalls
    /\ \E arrives \in BOOLEAN :
          LET r == PlayerUpdated(player, grid, arrives)
          IN  /\ player' = [r.player EXCEPT !.resources =
                               r.player.resources + DropsOf(enemies)]
              /\ grid' = r.grid
    /\ enemies' = SelectSeq(enemies, LAMBDA e : ~IsDead(e))
    /\ last_call' = [op |-> "update", pre |-> player,
                     tile |-> grid.tiles[<<player.x, player.y>>],
                     menus |-> menus, shadows |-> engine.shadows]
    /\ calls' = calls + 1
    /\ UNCHANGED <<engine, menus, hist>>
    /\ EconomyFrame

\* PausedState.handle_event: ESCAPE, or RETURN on "Resume"
EconomyResume ==
    /\ engine.state = "PAUSED"
    /\ calls < MaxEconomyCalls
    /\ engine' = [engine EXCEPT !.state = "PLAYING"]
    /\ last_call' = [op |-> "resume", pre |-> player,
                     tile |-> grid.tiles[<<player.x, player.y>>],
                     menus |-> menus, shadows |-> engine.shadows]
    /\ calls' = calls + 1
    /\ UNCHANGED <<player, grid, enemies, menus, hist>>
    /\ EconomyFrame

EconomyNext ==
    \/ KeyDown
    \/ EconomyUpdate
    \/ EconomyResume

EconomyStart == GenIdle /\ EconomyInit /\ since_attack = 0

SpecEconomy == EconomyStart /\ [][EconomyNext]_vars

\* the U key has just dismissed a shadow
Dismissed ==
    /\ last_call # <<>>
    /\ last_call.op = "handle_event"
    /\ last_call.key = "u"
    /\ Len(engine.shadows) < Len(last_call.shadows)

\* C31: summoning a shadow and dismissing it leaves the resources as they
\* were: what the dismissal refunds is what the summon of that shadow
\* deducted, for every shadow type.
C31_RefundIsPrice ==
    [][Dismissed' => player'.resources - player.resources = hist[Len(hist)]]_vars

\* the player pressed a key that builds: B outside the menus, or RETURN in
\* the trap menu
BuildTried ==
    /\ last_call # <<>>
    /\ last_call.op = "handle_event"
    /\ ~last_call.menus.shadow_menu.active
    /\ \/ last_call.key = "b" /\ ~last_call.menus.trap_menu.active
       \/ last_call.key = "RETURN" /\ last_call.menus.trap_menu.active

\* the cost of the build that was tried
BuildPrice ==
    IF last_call.key = "b" THEN BuildCostWall
    ELSE TrapTypeCost(TrapOptions[last_call.menus.trap_menu.selected_index + 1])

\* what a key may have deducted: the price of the wall, of the selected
\* trap, or of the selected shadow
PriceOf(call) ==
    IF call.menus.shadow_menu.active
    THEN ShadowTypeCost(ShadowOptions[call.menus.shadow_menu.selected_index + 1])
    ELSE IF call.menus.trap_menu.active
    THEN TrapTypeCost(TrapOptions[call.menus.trap_menu.selected_index + 1])
    ELSE BuildCostWall

\* C37: the resources are never negative; whenever they go down, a key has
\* deducted the price of what it bought and the player had at least that
\* much; and a build on a tile that is not floor, or with too few resources,
\* leaves the resources and the grid as they were.
C37_NeverNegative ==
    /\ [](player.resources >= 0)
    /\ [][player'.resources < player.resources
             => /\ last_call'.op = "handle_event"
                /\ player.resources - player'.resources = PriceOf(last_call')
                /\ player.resources >= PriceOf(last_call')]_vars
    /\ [][BuildTried' /\ (last_call'.tile.type # "floor"
                             \/ last_call'.pre.resources < BuildPrice')
             => player'.resources = player.resources /\ grid' = grid]_vars

\* a build that failed on a tile that is not floor, with the price in hand
C37_Witness ==
    /\ BuildTried
    /\ last_call.tile.type # "floor"
    /\ last_call.pre.resources >= BuildPrice
    /\ player.resources = last_call.pre.resources

\* a build that failed for want of resources, on a floor tile
C37_WitnessPoor ==
    /\ BuildTried
    /\ last_call.tile.type = "floor"
    /\ last_call.pre.resources < BuildPrice
    /\ grid.tiles[<<player.x, player.y>>].type = "floor"

-----------------------------------------------------------------------------
(* The state machine of the game: the six states of GameEngine, their keys  *)
(* and their update. GameEngine.__init__ ends in the raise of init_level,   *)
(* so the states are run on an engine that was handed a built level: a      *)
(* grid, a player, enemies, at most one shadow. The menus stay closed and   *)
(* every tile is visible. Times are in units of 25 ms.                      *)

MaxGameCalls == 6   \* longest sequence of keys and updates

\* Player.__init__: damage
PlayerDamage == 25

\* Player.attack: self.attack_cooldown = 0.5
PlayerAttackCooldown == 20

\* LEVEL_CONFIGS has the keys 1 .. 5
LastLevel == 5

\* get_level_config(level_num) is not None
LevelConfigured(level_num) == level_num \in 1 .. LastLevel

\* LEVEL_CONFIGS[level_num].start_resources
StartResources(level_num) ==
    CASE level_num = 1 -> 15
      [] level_num = 2 -> 12
      [] level_num = 3 -> 10
      [] level_num = 4 -> 8
      [] OTHER -> 5

GameCells == (0 .. 3) \X (0 .. 1)

\* a level: a spike trap the player built at (2, 0), the exit at (3, 1)
GameGrid ==
    [width |-> 4, height |-> 2,
     tiles |-> [c \in GameCells |->
                   IF c = <<2, 0>> THEN BuiltTrap("trap_spike")
                   ELSE IF c = <<3, 1>> THEN PlainTile("exit", 1)
                   ELSE PlainTile("floor", 1)]]

\* Player.__init__ at the spawn, with the start resources of the level
NewPlayer(x, y, resources) ==
    [x |-> x, y |-> y, health |-> PlayerHealth, resources |-> resources,
     moving |-> FALSE, move_target |-> <<x, y>>, attack_cooldown |-> 0]

\* PlayingState.update: "for enemy in self.engine.enemies" with its early
\* return; hits lists the enemies, as they were before the tick, whose
\* attack landed
RECURSIVE EnemyLoop(_, _, _, _, _, _, _)

\* the body of the loop from "damage = enemy.attack_player(...)" on, with
\* a the outcome of that call
EnemyAttacks(es, before_tick, i, g, dt, hits, a) ==
    LET es1 == [es EXCEPT ![i] = a.enemy]
        hits1 == IF a.damage > 0 THEN Append(hits, before_tick[i]) ELSE hits
    IN  IF a.damage > 0 /\ PlayerIsDead(a.player)
        THEN [enemies |-> es1, player |-> a.player, over |-> TRUE, hits |-> hits1]
        ELSE EnemyLoop(es1, before_tick, i + 1, a.player, g, dt, hits1)

\* the body of the loop from "if enemy.check_caught_player(...)" on, with
\* e1 the enemy after its update
EnemyTurn(es, before_tick, i, p, g, dt, hits, e1) ==
    IF CheckCaughtPlayer(e1, p)
    THEN EnemyAttacks(es, before_tick, i, g, dt, hits, AttackPlayer(e1, p))
    ELSE EnemyLoop([es EXCEPT ![i] = e1], before_tick, i + 1, p, g, dt, hits)

EnemyLoop(es, before_tick, i, p, g, dt, hits) ==
    IF i > Len(es)
    THEN [enemies |-> es, player |-> p, over |-> FALSE, hits |-> hits]
    ELSE EnemyTurn(es, before_tick, i, p, g, dt, hits,
                   EnemyMoved(EnemyUpdated(es[i], dt, p, g), dt))

\* PlayingState._check_trap_triggers: the enemies and the grid after the loop
RECURSIVE CheckTrapTriggers(_, _, _)
CheckTrapTriggers(es, i, g) ==
    IF i > Len(es) THEN [enemies |-> es, grid |-> g]
    ELSE LET here == <<es[i].x, es[i].y>>
             fires == TrapFires(g.tiles[here])
             effect == TrapEffect(g.tiles[here].trap_type)
             damaged == IF fires /\ effect.damage > 0
                        THEN TakeDamage(es[i], effect.damage) ELSE es[i]
             e1 == IF fires /\ effect.effect \in {"freeze", "slow"}
                   THEN ApplyEffect(damaged, effect.effect, effect.duration)
                   ELSE damaged
             g1 == IF fires
                   THEN [g EXCEPT !.tiles[here].trap_cooldown = TrapCooldown]
                   ELSE g
         IN  CheckTrapTriggers([es EXCEPT ![i] = e1], i + 1, g1)

\* the enemy types a list holds dead, in list order
DeadTypes(es) ==
    LET dead == SelectSeq(es, LAMBDA e : IsDead(e))
    IN  [i \in 1 .. Len(dead) |-> dead[i].enemy_type]

\* a removal of the dead that leaves the first enemy of the list in it
RemoveDeadButFirst(es) ==
    IF es = <<>> THEN es
    ELSE <<es[1]>> \o SelectSeq(Tail(es), LAMBDA e : e.health > 0)

\* PlayingState.update: "self.engine.enemies = [e for e in ... if not e.is_dead]"
RemoveDead(es) == SelectSeq(es, LAMBDA e : ~IsDead(e))

\* PlayingState.update from "if self.engine.shadow and self.engine.shadow.is_dead"
\* on, with su the shadow and the enemies after the update of the shadow
PlayingEnds(timed, p2, g2, su, hits, granted) ==
    [engine |-> IF g2.tiles[<<p2.x, p2.y>>].type = "exit"
                THEN [timed EXCEPT !.state = "LEVEL_COMPLETE"]
                ELSE timed,
     player |-> p2, enemies |-> su.enemies,
     shadow |-> IF su.shadow # <<>> /\ IsDead(su.shadow) THEN <<>> ELSE su.shadow,
     grid |-> g2, hits |-> hits, granted |-> granted, to_end |-> TRUE]

\* PlayingState.update from the update of the tiles on, with trapped the
\* enemies and the grid after _check_trap_triggers
PlayingTiles(st, dt, timed, p2, trapped, hits, granted) ==
    PlayingEnds(timed, p2,
                [trapped.grid EXCEPT !.tiles =
                    [c \in DOMAIN trapped.grid.tiles |->
                        TileUpdated(trapped.grid.tiles[c], dt)]],
                IF st.shadow = <<>>
                THEN [shadow |-> <<>>, enemies |-> trapped.enemies]
                ELSE ShadowUpdated(st.shadow, dt, p2, trapped.enemies,
                                   [trapped.grid EXCEPT !.tiles =
                                       [c \in DOMAIN trapped.grid.tiles |->
                                           TileUpdated(trapped.grid.tiles[c], dt)]]),
                hits, granted)

\* PlayingState.update after the loop over the enemies, with loop its outcome
PlayingLooped(st, dt, timed, g, loop) ==
    IF loop.over
    THEN [engine |-> [timed EXCEPT !.state = "GAME_OVER"],
          player |-> loop.player, enemies |-> loop.enemies,
          shadow |-> st.shadow, grid |-> g,
          hits |-> loop.hits, granted |-> <<>>, to_end |-> FALSE]
    ELSE PlayingTiles(st, dt, timed,
                      [loop.player EXCEPT !.resources =
                          loop.player.resources + DropsOf(loop.enemies)],
                      CheckTrapTriggers(RemoveDead(loop.enemies), 1, g),
                      loop.hits, DeadTypes(loop.enemies))

\* PlayingState.update from the cooldown of the player's attack on, with pu
\* the player and the grid after Player.update
PlayingMoved(st, dt, timed, pu) ==
    PlayingLooped(st, dt, timed, pu.grid,
                  EnemyLoop(st.enemies, st.enemies, 1,
                            IF pu.player.attack_cooldown > 0
                            THEN [pu.player EXCEPT !.attack_cooldown =
                                     pu.player.attack_cooldown - dt]
                            ELSE pu.player,
                            pu.grid, dt, <<>>))

\* PlayingState.update(dt) on st = [engine, player, enemies, shadow, grid];
\* the result also tells whose attacks landed and whose drops were granted
PlayingUpdated(st, dt, arrives) ==
    PlayingMoved(st, dt, [st.engine EXCEPT !.level_time = st.engine.level_time + dt],
                 PlayerUpdated(st.player, st.grid, arrives))

\* an update of the paused game that lets the clock of the level run
PausedClockRuns(st, dt, arrives) ==
    [engine |-> [st.engine EXCEPT !.level_time = st.engine.level_time + dt],
     player |-> st.player, enemies |-> st.enemies, shadow |-> st.shadow,
     grid |-> st.grid, hits |-> <<>>, granted |-> <<>>, to_end |-> FALSE]

\* PausedState.update, and the update of every state but PLAYING: "return None"
IdleUpdated(st, dt, arrives) ==
    [engine |-> st.engine, player |-> st.player, enemies |-> st.enemies,
     shadow |-> st.shadow, grid |-> st.grid, hits |-> <<>>, granted |-> <<>>,
     to_end |-> FALSE]

\* StateMachine.update: the update of the current state
StateUpdated(st, dt, arrives) ==
    IF st.engine.state = "PLAYING" THEN PlayingUpdated(st, dt, arrives)
    ELSE IdleUpdated(st, dt, arrives)

\* Player.attack(enemies): the player and the enemies after the call
PlayerAttack(p, es) ==
    IF p.attack_cooldown > 0 THEN [player |-> p, enemies |-> es]
    ELSE [player |-> [p EXCEPT !.attack_cooldown = PlayerAttackCooldown],
          enemies |-> [i \in DOMAIN es |->
                          IF (p.x - es[i].x) * (p.x - es[i].x)
                                + (p.y - es[i].y) * (p.y - es[i].y) <= 2
                          THEN TakeDamage(es[i], PlayerDamage) ELSE es[i]]]

\* StateMachine.transition_to: exit, switch, enter (PausedState.enter resets
\* the selection)
TransitionTo(eng, state_type) ==
    IF state_type = "PAUSED"
    THEN [eng EXCEPT !.state = state_type, !.selected_option = 0]
    ELSE [eng EXCEPT !.state = state_type]

\* GameEngine.init_level(level_num) on st: no configuration, grid = None
\* (grid_level 0); else the Grid call of line 137, which binds or raises
InitLevelOn(st, level_num) ==
    IF ~LevelConfigured(level_num)
    THEN [st EXCEPT !.engine.grid_level = 0]
    ELSE IF GridCallBinds
    THEN [st EXCEPT !.engine.grid_level = level_num,
                    !.grid = GameGrid,
                    !.player = NewPlayer(0, 1, StartResources(level_num)),
                    !.enemies = <<NewEnemy(3, 0, "security_agent", <<>>)>>]
    ELSE [st EXCEPT !.engine.raised = TRUE]

\* the state that a handler hands to the machine, unless init_level raised
Returned(st, state_type) ==
    IF st.engine.raised THEN st
    ELSE [st EXCEPT !.engine = TransitionTo(st.engine, state_type)]

\* LevelCompleteState.handle_event
LevelCompleteKeyDown(st, key) ==
    IF key = "RETURN"
    THEN LET up == [st EXCEPT !.engine.current_level = st.engine.current_level + 1]
             st1 == InitLevelOn(up, up.engine.current_level)
         IN  IF st1.engine.grid_level = 0 THEN Returned(st1, "VICTORY")
             ELSE Returned(st1, "PLAYING")
    ELSE st

\* VictoryState.handle_event
VictoryKeyDown(st, key) ==
    IF key \in {"RETURN", "ESCAPE"}
    THEN Returned(InitLevelOn([st EXCEPT !.engine.current_level = 1], 1), "MAIN_MENU")
    ELSE st

\* GameOverState.handle_event
GameOverKeyDown(st, key) ==
    IF key = "RETURN"
    THEN Returned(InitLevelOn(st, st.engine.current_level), "PLAYING")
    ELSE IF key = "ESCAPE" THEN Returned(st, "MAIN_MENU")
    ELSE st

\* MainMenuState.handle_event (ESCAPE posts QUIT: the loop of run ends)
MainMenuKeyDown(st, key) ==
    IF key = "RETURN" THEN Returned(st, "PLAYING")
    ELSE IF key = "ESCAPE" THEN [st EXCEPT !.engine.running = FALSE]
    ELSE st

\* PausedState.handle_event
PausedKeyDown(st, key) ==
    IF key = "ESCAPE" THEN Returned(st, "PLAYING")
    ELSE LET opt == IF key = "UP" THEN (st.engine.selected_option - 1) % 2
                    ELSE IF key = "DOWN" THEN (st.engine.selected_option + 1) % 2
                    ELSE st.engine.selected_option
             st1 == [st EXCEPT !.engine.selected_option = opt]
         IN  IF key = "RETURN"
             THEN IF opt = 0 THEN Returned(st1, "PLAYING")
                  ELSE [st1 EXCEPT !.engine.running = FALSE]
             ELSE st1

\* PlayingState.handle_event with both menus closed: ESCAPE, the arrow keys
\* and Z
PlayingKeyDown(st, key) ==
    CASE key = "ESCAPE" -> Returned(st, "PAUSED")
      [] key = "UP" -> [st EXCEPT !.player = PlayerMoved(st.player, 0, -1, st.grid)]
      [] key = "DOWN" -> [st EXCEPT !.player = PlayerMoved(st.player, 0, 1, st.grid)]
      [] key = "LEFT" -> [st EXCEPT !.player = PlayerMoved(st.player, -1, 0, st.grid)]
      [] key = "RIGHT" -> [st EXCEPT !.player = PlayerMoved(st.player, 1, 0, st.grid)]
      [] key = "z" -> LET r == PlayerAttack(st.player, st.enemies)
                      IN  [st EXCEPT !.player = r.player, !.enemies = r.enemies]
      [] OTHER -> st

\* StateMachine.handle_event: the handler of the current state
StateKeyDown(st, key) ==
    CASE st.engine.state = "MAIN_MENU" -> MainMenuKeyDown(st, key)
      [] st.engine.state = "PLAYING" -> PlayingKeyDown(st, key)
      [] st.engine.state = "PAUSED" -> PausedKeyDown(st, key)
      [] st.engine.state = "LEVEL_COMPLETE" -> LevelCompleteKeyDown(st, key)
      [] st.engine.state = "GAME_OVER" -> GameOverKeyDown(st, key)
      [] OTHER -> VictoryKeyDown(st, key)

GameKeys == {"ESCAPE", "RETURN", "UP", "DOWN", "LEFT", "RIGHT", "z"}

GameState == [engine |-> engine, player |-> player, enemies |-> enemies,
              shadow |-> shadow, grid |-> grid]

\* the enemies of the level: an elf next to the player's spawn and a worn
\* security agent that has stepped onto the trap; a worn agent and an alpha
\* bear beside the spawn; an alpha bear far from the player
GameFoes ==
    {<<NewEnemy(1, 1, "elf", <<>>),
       [NewEnemy(2, 0, "security_agent", <<>>) EXCEPT !.health = 5]>>,
     <<[NewEnemy(0, 0, "security_agent", <<>>) EXCEPT !.health = 5],
       NewEnemy(1, 1, "alpha_bear", <<>>)>>,
     <<NewEnemy(3, 0, "alpha_bear", <<>>)>>}

\* no shadow, or an igris the player summoned and sent to attack
GameShadows == {<<>>, [NewShadow(1, 1, "igris") EXCEPT !.state = "ATTACK"]}

GameInit ==
    /\ grid = GameGrid
    /\ \E level \in {1, LastLevel} :
          engine = [state |-> "MAIN_MENU", current_level |-> level,
                    grid_level |-> level, level_time |-> 0,
                    selected_option |-> 0, raised |-> FALSE, running |-> TRUE]
    /\ \E c \in {<<0, 1>>, <<2, 1>>}, health \in {PlayerHealth, 8} :
          player = [NewPlayer(c[1], c[2], StartResources(engine.current_level))
                       EXCEPT !.health = health]
    /\ enemies \in GameFoes
    /\ shadow \in GameShadows
    /\ hist = [granted |-> <<>>]
    /\ menus = [shadow_menu |-> [active |-> FALSE, selected_index |-> 0],
                trap_menu |-> [active |-> FALSE, selected_index |-> 0]]
    /\ renderer = <<>>
    /\ last_call = <<>>
    /\ calls = 0
    /\ enemy = <<>>
    /\ tick_pc = "off"
    /\ tick_dt = 0
    /\ before = <<>>
    /\ q_kind = "none"
    /\ q_start = NoPos
    /\ q_goal = NoPos
    /\ q_radius = 0
    /\ called = {}
    /\ path_result = <<>>
    /\ scan_result = <<>>
    /\ layers_result = <<>>

GameFrame ==
    UNCHANGED <<renderer, menus, enemy, tick_pc, tick_dt, before, genVars,
                combatVars, q_kind, q_start, q_goal, q_radius, called,
                path_result, scan_result, layers_result>>

\* GameEngine.handle_events: a KEYDOWN event, handed to the current state
GameKeyDown ==
    /\ engine.running /\ ~engine.raised
    /\ calls < MaxGameCalls
    /\ \E key \in GameKeys :
          \E r \in {StateKeyDown(GameState, key)} :
              /\ engine' = r.engine
              /\ player' = r.player
              /\ enemies' = r.enemies
              /\ shadow' = r.shadow
              /\ grid' = r.grid
              /\ last_call' = [op |-> "handle_event", key |-> key, pre |-> GameState,
                               hits |-> <<>>, granted |-> <<>>, to_end |-> FALSE]
    /\ calls' = calls + 1
    /\ UNCHANGED hist
    /\ GameFrame

\* GameEngine.update(dt): the update of the current state. hist keeps the
\* types of the enemies whose drop was granted.
GameUpdate ==
    /\ engine.running /\ ~engine.raised
    /\ calls < MaxGameCalls
    /\ \E arrives \in BOOLEAN :
          \E r \in {StateUpdated(GameState, 16, arrives)} :
              /\ engine' = r.engine
              /\ player' = r.player
              /\ enemies' = r.enemies
              /\ shadow' = r.shadow
              /\ grid' = r.grid
              /\ hist' = [hist EXCEPT !.granted = hist.granted \o r.granted]
              /\ last_call' = [op |-> "update", key |-> "", pre |-> GameState,
                               hits |-> r.hits, granted |-> r.granted,
                               to_end |-> r.to_end]
    /\ calls' = calls + 1
    /\ GameFrame

GameNext ==
    \/ GameKeyDown
    \/ GameUpdate

GameStart == GenIdle /\ GameInit /\ since_attack = 0

SpecGame == GameStart /\ [][GameNext]_vars

\* the last step was an update of the state machine
Updated == last_call # <<>> /\ last_call.op = "update"

\* the last step was the key RETURN
Confirmed ==
    last_call # <<>> /\ last_call.op = "handle_event" /\ last_call.key = "RETURN"

\* C32: while the state machine is in PAUSED, an update changes neither the
\* level time nor the player, the enemies, the shadow or any tile.
C32_PausedFrozen ==
    [][engine.state = "PAUSED" /\ Updated'
          => /\ engine'.level_time = engine.level_time
             /\ UNCHANGED <<player, enemies, shadow, grid>>]_vars

\* an update in PAUSED, of a game that had run and has enemies
C32_Witness ==
    /\ Updated
    /\ last_call.pre.engine.state = "PAUSED"
    /\ engine.level_time > 0
    /\ enemies # <<>>

\* current_level goes up only by one, on a key in LEVEL_COMPLETE
LevelUpOnConfirm ==
    [][engine'.current_level > engine.current_level
          => /\ engine.state = "LEVEL_COMPLETE"
             /\ Confirmed'
             /\ engine'.current_level = engine.current_level + 1]_vars

\* VICTORY is entered from LEVEL_COMPLETE, with a level that has no
\* configuration
VictoryAfterLast ==
    [][engine'.state = "VICTORY" /\ engine.state # "VICTORY"
          => /\ engine.state = "LEVEL_COMPLETE"
             /\ ~LevelConfigured(engine'.current_level)]_vars

\* a key in GAME_OVER leaves current_level alone
RetryKeepsLevel ==
    [][engine.state = "GAME_OVER" => engine'.current_level = engine.current_level]_vars

\* in PLAYING and PAUSED the engine holds the grid of current_level
GridOfLevel ==
    [](engine.state \in {"PLAYING", "PAUSED"}
          => engine.grid_level # 0 /\ engine.grid_level = engine.current_level)

\* confirming LEVEL_COMPLETE below the last level, and retrying after
\* GAME_OVER, lead to PLAYING
GameGoesOn ==
    [][/\ Confirmed'
       /\ \/ engine.state = "LEVEL_COMPLETE" /\ engine.current_level < LastLevel
          \/ engine.state = "GAME_OVER"
       => engine'.state = "PLAYING"]_vars

\* C33: the game goes through the five levels: current_level goes up by one
\* only on confirming LEVEL_COMPLETE, and that confirmation starts the next
\* level; VICTORY is entered only from LEVEL_COMPLETE when the level has no
\* configuration; a retry after GAME_OVER plays the same level again; in
\* PLAYING and PAUSED there is a grid of the current level.
C33_FiveLevels ==
    /\ LevelUpOnConfirm
    /\ VictoryAfterLast
    /\ RetryKeepsLevel
    /\ GridOfLevel
    /\ GameGoesOn

\* C39: PLAYING is never entered with a dead player: whenever the state
\* changes to PLAYING, the player's health is above zero.
C39_AliveOnEntry ==
    [][engine'.state = "PLAYING" /\ engine.state # "PLAYING"
          => player'.health > 0]_vars

\* the types in a sequence of enemy types or of enemies
TypesIn(types) == {types[i] : i \in DOMAIN types}

TypesOf(es) == {es[i].enemy_type : i \in DOMAIN es}

\* no drop is granted twice, and an enemy whose drop was granted has left
\* the list (the enemies of a level differ in type)
GrantedOnceAndGone ==
    [](/\ \A i, j \in DOMAIN hist.granted : hist.granted[i] = hist.granted[j] => i = j
       /\ TypesOf(enemies) \cap TypesIn(hist.granted) = {})

\* a tick grants the drops of the enemies that were dead when it began, and
\* of no others
GrantsTheDead ==
    [][Updated' => TypesIn(last_call'.granted) \subseteq TypesIn(DeadTypes(enemies))]_vars

\* only the attacks of living enemies land
OnlyTheLivingHit ==
    [][Updated' => /\ \A i \in DOMAIN last_call'.hits : ~IsDead(last_call'.hits[i])
                   /\ player'.health < player.health => last_call'.hits # <<>>]_vars

\* C36 (as amended): an enemy whose health has reached zero grants its drop
\* exactly once and leaves the list in the tick of the grant, which is the
\* first tick after its death that runs to its end (a tick in which an enemy
\* kills the player returns before the drops); a dead enemy never damages
\* the player.
C36_DropsOnce ==
    /\ GrantedOnceAndGone
    /\ GrantsTheDead
    /\ OnlyTheLivingHit
    /\ [][Updated' /\ last_call'.to_end
             => \A i \in DOMAIN enemies :
                   IsDead(enemies[i])
                      => /\ enemies[i].enemy_type \in TypesIn(last_call'.granted)
                         /\ enemies[i].enemy_type \notin TypesOf(enemies')]_vars

\* C36 (as stated): every enemy that is dead when a tick of the game begins
\* has its drop granted and is removed in that tick.
C36_DropsEveryTick ==
    /\ GrantedOnceAndGone
    /\ GrantsTheDead
    /\ OnlyTheLivingHit
    /\ [][Updated' /\ engine.state = "PLAYING"
             => \A i \in DOMAIN enemies :
                   IsDead(enemies[i])
                      => /\ enemies[i].enemy_type \in TypesIn(last_call'.granted)
                         /\ enemies[i].enemy_type \notin TypesOf(enemies')]_vars

\* a tick has granted the drop of an enemy that a trap or the shadow killed
\* in the tick before, and the enemy is gone
C36_Witness ==
    /\ Updated
    /\ last_call.to_end
    /\ last_call.granted # <<>>
    /\ last_call.pre.player.attack_cooldown = 0
    /\ player.resources > last_call.pre.player.resources
    /\ Len(enemies) < Len(last_call.pre.enemies)

-----------------------------------------------------------------------------
(* The scan of the player under the fog of war: SPACE starts the layered    *)
(* BFS and hands its layers to the renderer, whose animation reveals them   *)
(* tick by tick. Times are in units of 25 ms.                               *)

MaxScanKeys == 4   \* most keys pressed in one run

\* PlayingState._perform_scan and _perform_initial_scan: radius=5
ScanRadius == 5

\* Renderer.__init__: bfs_layer_delay = 0.15
BfsLayerDelay == 6

\* update_bfs_animation: the glow is kept for 0.5 s after the last layer
BfsGlowTime == 20

ScanWidth == 9

ScanCells == (0 .. ScanWidth - 1) \X {0}

\* a tile with its fog-of-war flag
SeenTile(type, visible) ==
    [type |-> type, cost |-> IF type = "wall" THEN 999 ELSE 1,
     trap_type |-> "none", trap_cooldown |-> 0, visible |-> visible]

\* the cells of the layers of a scan
CellsOfLayers(layers) ==
    UNION {{layers[k][i] : i \in DOMAIN layers[k]} : k \in DOMAIN layers}

\* a corridor, or a corridor with a wall at its far end, in which
\* _perform_initial_scan has revealed what lies within the radius of the spawn
\* at (0, 0)
ScanGrids ==
    {[width |-> ScanWidth, height |-> 1,
      tiles |-> [c \in ScanCells |->
                    SeenTile(IF c[1] = wall THEN "wall" ELSE "floor",
                             c[1] <= ScanRadius)]] :
        wall \in {-1, ScanWidth - 1}}

\* Renderer.start_bfs_animation
StartBfsAnimation(layers) ==
    [bfs_layers |-> layers, bfs_animation_timer |-> 0, bfs_current_layer |-> 0,
     bfs_active |-> TRUE, bfs_revealed_tiles |-> {}]

\* update_bfs_animation: the while-loop that reveals the layers that are due
\* (bfs_layers[bfs_current_layer] of the source is bfs_layers[.. + 1] here)
RECURSIVE RevealDue(_, _)
RevealDue(r, g) ==
    IF /\ r.bfs_current_layer < Len(r.bfs_layers)
       /\ r.bfs_animation_timer >= BfsLayerDelay * r.bfs_current_layer
    THEN LET layer == r.bfs_layers[r.bfs_current_layer + 1]
             cells == {layer[i] : i \in DOMAIN layer}
         IN  RevealDue([r EXCEPT !.bfs_revealed_tiles = r.bfs_revealed_tiles \cup cells,
                                 !.bfs_current_layer = r.bfs_current_layer + 1],
                       [g EXCEPT !.tiles = [c \in DOMAIN g.tiles |->
                                               IF c \in cells
                                               THEN [g.tiles[c] EXCEPT !.visible = TRUE]
                                               ELSE g.tiles[c]]])
    ELSE [renderer |-> r, grid |-> g]

\* an animation that ends with the last layer but one
UpdateBfsAnimationShort(r, g, dt) ==
    IF ~r.bfs_active THEN [renderer |-> r, grid |-> g]
    ELSE LET r1 == [r EXCEPT !.bfs_animation_timer = r.bfs_animation_timer + dt]
             due == {k \in 1 .. Len(r1.bfs_layers) - 1 :
                        r1.bfs_animation_timer >= 6 * (k - 1)}
             cells == UNION {{r1.bfs_layers[k][i] : i \in DOMAIN r1.bfs_layers[k]} :
                                k \in due}
         IN  [renderer |-> IF r1.bfs_animation_timer > 6 * Len(r1.bfs_layers) + 20
                           THEN [r1 EXCEPT !.bfs_active = FALSE,
                                           !.bfs_current_layer = Len(r1.bfs_layers),
                                           !.bfs_revealed_tiles = {}]
                           ELSE [r1 EXCEPT !.bfs_current_layer =
                                    IF Cardinality(due) = Len(r1.bfs_layers) - 1
                                    THEN Len(r1.bfs_layers) ELSE Cardinality(due),
                                           !.bfs_revealed_tiles = cells],
              grid |-> [g EXCEPT !.tiles = [c \in DOMAIN g.tiles |->
                                               IF c \in cells
                                               THEN [g.tiles[c] EXCEPT !.visible = TRUE]
                                               ELSE g.tiles[c]]]]

\* Renderer.update_bfs_animation: the renderer and the grid after the call
UpdateBfsAnimation(r, g, dt) ==
    IF ~r.bfs_active THEN [renderer |-> r, grid |-> g]
    ELSE LET due == RevealDue([r EXCEPT !.bfs_animation_timer =
                                  r.bfs_animation_timer + dt], g)
             r1 == due.renderer
         IN  IF /\ r1.bfs_current_layer >= Len(r1.bfs_layers)
                /\ r1.bfs_animation_timer
                      > BfsLayerDelay * Len(r1.bfs_layers) + BfsGlowTime
             THEN [renderer |-> [r1 EXCEPT !.bfs_active = FALSE,
                                           !.bfs_revealed_tiles = {}],
                   grid |-> due.grid]
             ELSE due

\* Player.move(dx, dy, grid) under the fog of war: "and tile.visible"
PlayerMoveSeen(p, dx, dy, g) ==
    LET new == <<p.x + dx, p.y + dy>>
    IN  IF /\ InBounds(new, g)
           /\ g.tiles[new].type # "wall"
           /\ g.tiles[new].visible
           /\ ~p.moving
        THEN [p EXCEPT !.moving = TRUE, !.move_target = new]
        ELSE p

ScanKeys == {"SPACE", "LEFT", "RIGHT"}

ScanDts == {4, 16}

\* the player stands on the spawn or has walked three tiles into the level
ScanInit ==
    /\ grid \in ScanGrids
    /\ \E x \in {0, 3} :
          player = [x |-> x, y |-> 0, moving |-> FALSE, move_target |-> <<x, 0>>]
    /\ renderer = [bfs_layers |-> <<>>, bfs_animation_timer |-> 0,
                   bfs_current_layer |-> 0, bfs_active |-> FALSE,
                   bfs_revealed_tiles |-> {}]
    /\ hist = [scans |-> 0, promised |-> {}]
    /\ engine = [state |-> "PLAYING"]
    /\ menus = [shadow_menu |-> [active |-> FALSE, selected_index |-> 0],
                trap_menu |-> [active |-> FALSE, selected_index |-> 0]]
    /\ last_call = <<>>
    /\ calls = 0
    /\ shadow = <<>>
    /\ enemies = <<>>
    /\ enemy = <<>>
    /\ tick_pc = "off"
    /\ tick_dt = 0
    /\ before = <<>>
    /\ q_kind = "none"
    /\ q_start = NoPos
    /\ q_goal = NoPos
    /\ q_radius = 0
    /\ called = {}
    /\ path_result = <<>>
    /\ scan_result = <<>>
    /\ layers_result = <<>>

ScanFrame ==
    UNCHANGED <<engine, menus, shadow, enemies, enemy, tick_pc, tick_dt, before,
                genVars, combatVars, q_kind, q_start, q_goal, q_radius, called,
                path_result, scan_result, layers_result>>

\* PlayingState.handle_event with both menus closed: SPACE (_perform_scan)
\* and the arrow keys. hist counts the scans and keeps the cells of their
\* layers.
ScanKeyDown ==
    /\ calls < MaxScanKeys
    /\ \E key \in ScanKeys :
          /\ last_call' = [op |-> "handle_event", key |-> key]
          /\ IF key = "SPACE"
             THEN LET layers == BfsScanLayered(<<player.x, player.y>>, grid, ScanRadius)
                  IN  /\ renderer' = StartBfsAnimation(layers)
                      /\ hist' = [scans |-> hist.scans + 1,
                                  promised |-> hist.promised \cup CellsOfLayers(layers)]
                      /\ UNCHANGED player
             ELSE /\ player' = PlayerMoveSeen(player, IF key = "LEFT" THEN -1 ELSE 1,
                                              0, grid)
                  /\ UNCHANGED <<renderer, hist>>
    /\ calls' = calls + 1
    /\ UNCHANGED grid
    /\ ScanFrame

\* PlayingState.update, as far as the scan goes: Player.update and
\* Renderer.update_bfs_animation
ScanUpdate ==
    /\ \E dt \in ScanDts, arrives \in BOOLEAN :
          LET p1 == IF player.moving /\ arrives
                    THEN [player EXCEPT !.x = player.move_target[1],
                                        !.y = player.move_target[2],
                                        !.moving = FALSE]
                    ELSE player
              r == UpdateBfsAnimation(renderer, grid, dt)
          IN  /\ player' = p1
              /\ renderer' = r.renderer
              /\ grid' = r.grid
    /\ last_call' = [op |-> "update", key |-> ""]
    /\ UNCHANGED <<hist, calls>>
    /\ ScanFrame

ScanNext ==
    \/ ScanKeyDown
    \/ ScanUpdate

ScanStart == GenIdle /\ ScanInit /\ since_attack = 0

\* GameEngine.run calls update frame after frame: an update that advances a
\* running animation is not put off for ever
SpecScan == ScanStart /\ [][ScanNext]_vars /\ WF_renderer(ScanUpdate)

Visible == {c \in ScanCells : grid.tiles[c].visible}

\* the cells of the first k layers that a renderer holds
LayersUpTo(r, k) ==
    UNION {{r.bfs_layers[j][i] : i \in DOMAIN r.bfs_layers[j]} : j \in 1 .. k}

\* the layers are revealed in the order of their distance: what is visible
\* of the scan is a prefix of its layers, and bfs_current_layer never goes
\* back within a scan
LayersInOrder ==
    /\ [](renderer.bfs_active
            => LayersUpTo(renderer, renderer.bfs_current_layer) \subseteq Visible)
    /\ [][hist'.scans = hist.scans
             => /\ renderer'.bfs_current_layer >= renderer.bfs_current_layer
                /\ Visible' \ Visible \subseteq
                      LayersUpTo(renderer', renderer'.bfs_current_layer)]_vars

\* C40 (as amended): a scan that no later scan replaces is completed: under
\* continued ticks every tile of every layer of it becomes visible, layer by
\* layer in the order of distance. A scan started while an animation runs
\* replaces the layers of the earlier scan, whose tiles not yet revealed are
\* revealed only as far as the new scan covers them.
C40_LastScanCompletes ==
    /\ LayersInOrder
    /\ \A n \in 1 .. MaxScanKeys :
          (hist.scans = n)
             ~> (hist.scans # n
                    \/ CellsOfLayers(renderer.bfs_layers) \subseteq Visible)

\* C40 (as stated): every tile of every layer of every scan the player
\* starts becomes visible.
C40_EveryScanCompletes ==
    /\ LayersInOrder
    /\ \A c \in ScanCells : (c \in hist.promised) ~> grid.tiles[c].visible

\* a scan has been completed that revealed tiles beyond the initial scan
C40_Witness ==
    /\ hist.scans > 0
    /\ ~renderer.bfs_active
    /\ renderer.bfs_current_layer = Len(renderer.bfs_layers)
    /\ hist.promised \subseteq Visible
    /\ \E c \in hist.promised : c[1] > ScanRadius

====
